---- MODULE Spec2Model ----
(***************************************************************************)
(* SCORM import pipeline of lms-kluch: the endpoint import_scorm_package   *)
(* (app/api/v1/endpoints/scorm.py) together with                           *)
(* SCORMParser.extract_scorm_package and cleanup_extracted_files           *)
(* (app/services/scorm_parser.py) and the lesson CRUD it calls             *)
(* (app/crud/lesson.py).                                                   *)
(*                                                                         *)
(* One import call is one process; pc is its position in the handler.      *)
(* The model starts after the course lookup and the authorization check    *)
(* (scorm.py 32-38), which the specification treats as an external         *)
(* precondition of the pipeline.                                           *)
(***************************************************************************)
EXTENDS Integers, Sequences, FiniteSets, TLC

\* ------------------------------------------------------------------ bounds
\* Longest list of <file href> entries a manifest of the model declares.
MaxHrefs == 2
\* Most references one HTML file gets rehomed.
MaxImages == 1
\* Most HTML files a package imported by the endpoint model yields.
MaxFiles == 2

\* ------------------------------------------------------- uploaded filenames
\* file.filename as the client sent it: directory part, base name, suffix.
\* The empty name stands for a missing filename.
NoFilename == [dir |-> "", base |-> "", suffix |-> ""]

Filenames ==
    { NoFilename,
      [dir |-> "",     base |-> "pkg",    suffix |-> ".zip"],
      [dir |-> "../",  base |-> "COURSE", suffix |-> ".SCORM"],
      [dir |-> "sub/", base |-> "pkg",    suffix |-> ".pif"],
      [dir |-> "",     base |-> "notes",  suffix |-> ".txt"],
      [dir |-> "",     base |-> "pkg",    suffix |-> ""] }

\* str.lower() on the suffixes of the model.
Lower(s) ==
    CASE s = ".SCORM" -> ".scorm"
      [] s = ".ZIP"   -> ".zip"
      [] s = ".JPG"   -> ".jpg"
      [] OTHER        -> s

AllowedExtensions == {".zip", ".scorm", ".pif"}

\* Path(file.filename).suffix.lower()
file_ext(fn) == Lower(fn.suffix)

\* Where Path(temp_dir) / file.filename points, relative to temp_dir:
\* a bare name stays inside temp_dir; a leading "../" leaves it; a
\* directory part that does not exist in the fresh temp_dir cannot be opened.
temp_file_path(fn) ==
    CASE fn.dir = ""    -> "inside"
      [] fn.dir = "../" -> "outside"
      [] OTHER          -> "nodir"

\* ------------------------------------------------------ packages and paths
\* Names of the files (and of the one directory "x") an archive may hold.
HtmlNames  == {"a.html", "b.htm"}
ImageNames == {"p.png"}
OtherNames == {"s.js"}
DirNames   == {"x"}
TreeNames  == HtmlNames \cup ImageNames \cup OtherNames \cup DirNames

\* Traversal order of rglob over the extracted tree.
ScanOrder == <<"a.html", "b.htm", "p.png", "s.js">>

\* The suffix of a name, lower-cased (file.lower().endswith(...)).
Ext(n) ==
    CASE n = "a.html"    -> ".html"
      [] n = "gone.html" -> ".html"
      [] n = "host.html" -> ".html"
      [] n = "b.htm"     -> ".htm"
      [] n = "p.png"     -> ".png"
      [] n = "s.js"      -> ".js"
      [] OTHER           -> ""

\* Path(html_file).stem
Stem(n) ==
    CASE n = "a.html" -> "a"
      [] n = "b.htm"  -> "b"
      [] n = "host.html" -> "host"
      [] OTHER        -> n

ImageExts == {".jpg", ".jpeg", ".png", ".gif", ".bmp", ".svg", ".webp"}

\* <file href="..."> values a manifest of the model may declare: a relative
\* path written as a directory prefix and a name.
Hrefs ==
    { [via |-> "",      name |-> "a.html"],
      [via |-> "x/../", name |-> "a.html"],
      [via |-> "./",    name |-> "b.htm"],
      [via |-> "",      name |-> "p.png"],
      [via |-> "",      name |-> "s.js"],
      [via |-> "",      name |-> "gone.html"],
      [via |-> "../",   name |-> "host.html"] }

\* Sequences of length at most n over S.
SeqUpTo(S, n) == UNION { [1..k -> S] : k \in 0..n }

\* str(extract_path / file): pathlib drops "." segments and keeps ".."
\* segments, so "./b.htm" and "b.htm" give one string while "x/../a.html"
\* and "a.html" give two.
PathJoin(href) ==
    [via |-> IF href.via = "./" THEN "" ELSE href.via, name |-> href.name]

\* Files of the host that lie next to the extraction directory.
HostNames == {"host.html"}

\* Path.exists() of a joined path: in the extracted tree, or, for a path
\* that leaves the extraction directory through "..", on the host.
Exists(p, tree) ==
    IF p.via = "../" THEN p.name \in HostNames
    ELSE /\ p.name \in tree
         /\ (p.via = "x/../" => "x" \in tree)

\* --------------------------------------------------- extract_scorm_package
\* The .xml files an archive may hold, as paths relative to extract_path, in
\* the traversal order of rglob.
XmlOrder == <<"imsmanifest.xml", "x/course_manifest.xml", "x/imsmanifest.xml",
              "y/imsmanifest.xml", "y/data.xml">>
XmlNames == { XmlOrder[k] : k \in 1..Len(XmlOrder) }

\* Path.name of an .xml path of the model.
BaseName(p) ==
    CASE p = "x/course_manifest.xml" -> "course_manifest.xml"
      [] p = "y/data.xml"            -> "data.xml"
      [] OTHER                       -> "imsmanifest.xml"

\* Whether the name of a path matches a glob pattern of the manifest search.
Matches(p, pattern) ==
    CASE pattern = "imsmanifest.xml" -> BaseName(p) = "imsmanifest.xml"
      [] pattern = "*manifest*.xml"  ->
             BaseName(p) \in {"imsmanifest.xml", "course_manifest.xml"}
      [] OTHER                       -> FALSE

\* extract_path.rglob(pattern) over the .xml files present.
RGlobXml(xmls, pattern) ==
    SelectSeq(XmlOrder, LAMBDA p : p \in xmls /\ Matches(p, pattern))

\* Mutant: the search takes the first file matching *manifest*.xml.
FindManifest_AnyFirst(pkg) ==
    LET alt == RGlobXml(pkg.xmls, "*manifest*.xml")
    IN  IF alt # <<>> THEN Head(alt) ELSE "none"

\* The manifest search (lines 136-155): extract_path / "imsmanifest.xml" if
\* it exists, else the first hit of rglob("imsmanifest.xml"), else the
\* first hit of rglob("*manifest*.xml"); "none" when manifest_path does not
\* exist after the search.
FindManifest(pkg) ==
    LET root  == "imsmanifest.xml"
        exact == RGlobXml(pkg.xmls, "imsmanifest.xml")
        alt   == RGlobXml(pkg.xmls, "*manifest*.xml")
        manifest_path ==
            IF root \in pkg.xmls THEN root
            ELSE IF exact # <<>> THEN Head(exact)
            ELSE IF alt # <<>> THEN Head(alt)
            ELSE root
    IN  IF manifest_path \in pkg.xmls THEN manifest_path ELSE "none"

\* The manifest pass: every declared file that exists, in document order,
\* appended to the bucket of its extension.
Declared(hrefs, tree, exts) ==
    SelectSeq([k \in 1..Len(hrefs) |-> PathJoin(hrefs[k])],
              LAMBDA p : Exists(p, tree) /\ Ext(p.name) \in exts)

\* Whether a path string is an element of a list (file_str not in html_files).
InList(p, list) == \E k \in 1..Len(list) : list[k] = p

\* extract_path.rglob("*" + ext): the files of the tree with that suffix,
\* in traversal order, as path strings.
RGlob(tree, ext) ==
    LET hits == SelectSeq(ScanOrder, LAMBDA n : n \in tree /\ Ext(n) = ext)
    IN  [k \in 1..Len(hits) |-> [via |-> "", name |-> hits[k]]]

\* for f in extract_path.rglob(pattern): if str(f) not in list: list.append
RECURSIVE ScanInto(_, _)
ScanInto(list, found) ==
    IF found = <<>> THEN list
    ELSE ScanInto(IF InList(Head(found), list) THEN list
                  ELSE Append(list, Head(found)),
                  Tail(found))

\* The filesystem pass over several patterns, one rglob after the other.
RECURSIVE ScanAll(_, _, _)
ScanAll(list, tree, exts) ==
    IF exts = <<>> THEN list
    ELSE ScanAll(ScanInto(list, RGlob(tree, Head(exts))), tree, Tail(exts))

HtmlPatterns  == <<".html", ".htm">>
ImagePatterns == <<".jpg", ".jpeg", ".png", ".gif", ".bmp", ".svg">>

\* html_files of the returned metadata.
html_files_of(pkg) ==
    ScanAll(Declared(pkg.hrefs, pkg.tree, {".html", ".htm"}), pkg.tree, HtmlPatterns)

\* image_files of the returned metadata.
image_files_of(pkg) ==
    ScanAll(Declared(pkg.hrefs, pkg.tree, ImageExts), pkg.tree, ImagePatterns)

\* other_files of the returned metadata: the manifest pass alone.
other_files_of(pkg) ==
    SelectSeq([k \in 1..Len(pkg.hrefs) |-> PathJoin(pkg.hrefs[k])],
              LAMBDA p : Exists(p, pkg.tree)
                         /\ Ext(p.name) \notin ({".html", ".htm"} \cup ImageExts))

\* The metadata extract_scorm_package returns.
MetadataOf(pkg) ==
    [ok          |-> TRUE,
     manifest    |-> FindManifest(pkg),
     resources   |-> Len(pkg.hrefs),
     html_files  |-> html_files_of(pkg),
     image_files |-> image_files_of(pkg),
     other_files |-> other_files_of(pkg)]

NoMetadata ==
    [ok |-> FALSE, manifest |-> "none", resources |-> 0,
     html_files |-> <<>>, image_files |-> <<>>, other_files |-> <<>>]

\* Where extraction fails, if it does: the archive is no ZIP, no manifest
\* is found, the manifest does not parse, or the tree scan raises.
ExtractionError(pkg) ==
    IF ~pkg.archive_ok THEN "unzip"
    ELSE IF FindManifest(pkg) = "none" THEN "manifest_not_found"
    ELSE IF ~pkg.manifest_ok THEN "manifest_parse"
    ELSE IF ~pkg.scan_ok THEN "classification"
    ELSE "none"

\* The packages of the model.  Fields that a failed step never reads are
\* fixed, so that each failure is one package and not many.  The manifest
\* search reads xmls alone and the classification reads tree and hrefs
\* alone, so the successful packages vary the one or the other.
Packages ==
    { [archive_ok |-> FALSE, tree |-> {}, xmls |-> {},
       manifest_ok |-> FALSE, scan_ok |-> FALSE, hrefs |-> <<>>] }
    \cup
    { [archive_ok |-> TRUE, tree |-> {}, xmls |-> x,
       manifest_ok |-> FALSE, scan_ok |-> FALSE, hrefs |-> <<>>]
        : x \in SUBSET XmlNames }
    \cup
    { [archive_ok |-> TRUE, tree |-> {"a.html"}, xmls |-> x,
       manifest_ok |-> TRUE, scan_ok |-> TRUE, hrefs |-> <<>>]
        : x \in SUBSET XmlNames }
    \cup
    { [archive_ok |-> TRUE, tree |-> t, xmls |-> {"imsmanifest.xml"},
       manifest_ok |-> TRUE, scan_ok |-> s, hrefs |-> h]
        : t \in SUBSET TreeNames, s \in BOOLEAN,
          h \in SeqUpTo(Hrefs, MaxHrefs) }

\* The packages the endpoint model imports: every failing package, and the
\* packages with a root manifest alone that yield at most MaxFiles HTML
\* files.
ImportPackages ==
    { pkg \in Packages :
        \/ ExtractionError(pkg) \notin {"none", "classification"}
        \/ /\ pkg.xmls = {"imsmanifest.xml"}
           /\ Len(html_files_of(pkg)) <= MaxFiles }

\* ------------------------------------------------------------------- state
VARIABLES
    pc,                 \* position of the import call in import_scorm_package
    filename,           \* file.filename of the upload
    temp_dir,           \* whether the mkdtemp directory exists on disk
    upload,             \* where the written upload lies: "none", "inside", "outside"
    extract_dir,        \* whether the extraction directory exists on disk
    metadata,           \* what extract_scorm_package returned
    i,                  \* loop index over metadata.html_files
    lesson_id,          \* id of the lesson row of the file in work (0: none)
    images_info,        \* the assets rehomed for the file in work
    lessons_created,    \* the endpoint's list of created lessons
    failed_conversions, \* the endpoint's list of {file, error}
    lessons,            \* lesson rows committed to the database
    attachments,        \* attachment rows committed to the database
    session,            \* lesson ids with changes the session has not flushed
    background_tasks,   \* tasks added to BackgroundTasks and not yet run
    response,           \* the HTTP response of the call
    exc,                \* the exception in flight or behind the response
    io_faults,          \* the removals that failed so far (environment)
    arg,                \* argument of a parser method called on its own
    result              \* what that call returned

vars == <<pc, filename, temp_dir, upload, extract_dir, metadata, i, lesson_id,
          images_info, lessons_created, failed_conversions, lessons,
          attachments, session, background_tasks, response, exc,
          io_faults, arg, result>>

\* What no action of the import call changes.
fixed  == <<filename, arg, result>>
disk   == <<temp_dir, upload, extract_dir>>
loop   == <<i, lesson_id, images_info, lessons_created, failed_conversions>>
db     == <<lessons, attachments, session>>

NoResponse == [status |-> 0, kind |-> "none"]
NoExc == [type |-> "none", cause |-> "none"]
\* arg and result while no parser method is called on its own.
NoCall == "none"

\* The state when the handler is entered.  A directory with the name the
\* call will draw for extract_dir may be left over on disk.
Init ==
    /\ pc = "validate"
    /\ filename \in Filenames
    /\ temp_dir = FALSE
    /\ upload = "none"
    /\ extract_dir \in BOOLEAN
    /\ metadata = NoMetadata
    /\ i = 0
    /\ lesson_id = 0
    /\ images_info = <<>>
    /\ lessons_created = <<>>
    /\ failed_conversions = <<>>
    /\ lessons = <<>>
    /\ attachments = <<>>
    /\ session = {}
    /\ background_tasks = <<>>
    /\ response = NoResponse
    /\ exc = NoExc
    /\ io_faults = {}
    /\ arg = NoCall
    /\ result = NoCall

\* ------------------------------------------------- import_scorm_package
\* raise HTTPException(status_code=400, ...) before the try block.
Reject(reason) ==
    /\ pc' = "done"
    /\ response' = [status |-> 400, kind |-> "error"]
    /\ exc' = [type |-> "http400", cause |-> reason]

\* Mutant: the checks run after the temporary directory was made.
Validate_Late ==
    /\ pc = "validate"
    /\ IF filename = NoFilename
       THEN Reject("filename_required") /\ temp_dir' = TRUE
       ELSE IF file_ext(filename) \notin AllowedExtensions
            THEN Reject("bad_extension") /\ temp_dir' = TRUE
            ELSE pc' = "mkdtemp" /\ UNCHANGED <<response, exc, temp_dir>>
    /\ UNCHANGED <<fixed, upload, extract_dir, metadata, loop, db,
                   background_tasks, io_faults>>

\* Filename and extension checks (lines 41-49).
Validate ==
    /\ pc = "validate"
    /\ IF filename = NoFilename
       THEN Reject("filename_required")
       ELSE IF file_ext(filename) \notin AllowedExtensions
            THEN Reject("bad_extension")
            ELSE pc' = "mkdtemp" /\ UNCHANGED <<response, exc>>
    /\ UNCHANGED <<fixed, disk, metadata, loop, db, background_tasks,
                   io_faults>>

\* tempfile.mkdtemp: outside the try block, so a failure is not handled by
\* the endpoint and the framework answers 500.
MkTemp ==
    /\ pc = "mkdtemp"
    /\ \E ok \in BOOLEAN :
         IF ok
         THEN temp_dir' = TRUE /\ pc' = "save" /\ UNCHANGED <<response, exc>>
         ELSE /\ temp_dir' = FALSE
              /\ pc' = "done"
              /\ response' = [status |-> 500, kind |-> "error"]
              /\ exc' = [type |-> "mkdtemp", cause |-> "temp_io"]
    /\ UNCHANGED <<fixed, upload, extract_dir, metadata, loop, db,
                   background_tasks, io_faults>>

\* with open(temp_file_path, 'wb') as f: f.write(await file.read())
\* A failed write may leave the file it opened behind.
SaveUpload ==
    /\ pc = "save"
    /\ \/ /\ temp_file_path(filename) # "nodir"
          /\ upload' = temp_file_path(filename)
          /\ pc' = "extract"
          /\ exc' = exc
       \/ /\ upload' \in {"none"} \cup ({temp_file_path(filename)} \ {"nodir"})
          /\ pc' = "except"
          /\ exc' = [type |-> "write", cause |-> "temp_io"]
    /\ UNCHANGED <<fixed, temp_dir, extract_dir, metadata, loop, db,
                   background_tasks, response, io_faults>>

\* extract_scorm_package, lines 121-122 failing: a directory left over under
\* the same name cannot be removed; the error is raised before the try block.
ExtractStaleFail ==
    /\ pc = "extract"
    /\ extract_dir
    /\ pc' = "except"
    /\ exc' = [type |-> "rmtree", cause |-> "stale_extract_dir"]
    /\ io_faults' = io_faults \cup {"stale_extract_dir"}
    /\ UNCHANGED <<fixed, disk, metadata, loop, db, background_tasks,
                   response>>

\* extract_scorm_package returning the metadata, for a package of pkgs.
ExtractOk(pkgs) ==
    /\ pc = "extract"
    /\ \E pkg \in pkgs :
         /\ ExtractionError(pkg) = "none"
         /\ metadata' = MetadataOf(pkg)
    /\ extract_dir' = TRUE
    /\ pc' = "loop"
    /\ UNCHANGED <<fixed, temp_dir, upload, loop, db, background_tasks,
                   response, exc, io_faults>>

\* Mutant: a failure of the removal is not swallowed.
ExtractCleanup_Raise(cause, removed) ==
    /\ extract_dir' = ~removed
    /\ io_faults' = IF removed THEN io_faults
                    ELSE io_faults \cup {"extract_dir"}
    /\ exc' = IF removed THEN [type |-> "extraction", cause |-> cause]
              ELSE [type |-> "rmtree", cause |-> "extract_dir"]
    /\ pc' = "except"

\* The except clause of extract_scorm_package (lines 234-243): remove
\* extract_path, swallowing a failure of the removal, and raise the wrapped
\* error.  removed tells whether shutil.rmtree went through.
ExtractCleanup(cause, removed) ==
    /\ extract_dir' = ~removed
    /\ io_faults' = IF removed THEN io_faults
                    ELSE io_faults \cup {"extract_dir"}
    /\ exc' = [type |-> "extraction", cause |-> cause]
    /\ pc' = "except"

\* extract_scorm_package failing inside its try block.
ExtractFail(pkgs) ==
    /\ pc = "extract"
    /\ \E pkg \in pkgs, removed \in BOOLEAN :
         /\ ExtractionError(pkg) # "none"
         /\ ExtractCleanup(ExtractionError(pkg), removed)
    /\ UNCHANGED <<fixed, temp_dir, upload, metadata, loop, db,
                   background_tasks, response>>

\* ---------------------------------------------- extract_and_process_images
\* The host filesystem around one extracted package, paths as sequences of
\* segments from the root: the package lies in /srv/pkg, the HTML file in
\* work is /srv/pkg/lesson/a.html, and /srv/secret.txt and /etc/hostname are
\* files of the host outside the package.
extracted_path == <<"srv", "pkg">>
html_file_path == <<"srv", "pkg", "lesson", "a.html">>
HostFiles ==
    { html_file_path,
      <<"srv", "pkg", "lesson", "p.png">>,
      <<"srv", "pkg", "lesson", "my pic.png">>,
      <<"srv", "pkg", "p.png">>,
      <<"srv", "pkg", "q.JPG">>,
      <<"srv", "secret.txt">>,
      <<"etc", "hostname">> }

\* Path.parent
Parent(path) == SubSeq(path, 1, Len(path) - 1)

IsDir(path) ==
    \E f \in HostFiles : Len(f) > Len(path) /\ SubSeq(f, 1, Len(path)) = path

\* Where the operating system ends up when it walks segs from cur: ".."
\* steps up, a name steps down, and stepping on from what is no directory
\* finds nothing.
NoSuchFile == <<"?">>
RECURSIVE Walk(_, _)
Walk(cur, segs) ==
    IF segs = <<>> THEN cur
    ELSE IF ~IsDir(cur) THEN NoSuchFile
    ELSE IF Head(segs) = ".."
         THEN Walk(IF cur = <<>> THEN cur ELSE Parent(cur), Tail(segs))
         ELSE Walk(Append(cur, Head(segs)), Tail(segs))

\* path.exists() and path.is_file()
IsFile(path) == Walk(<<>>, path) \in HostFiles

\* Whether stat() of the path fails with ENAMETOOLONG: "LONG" stands for a
\* name of more than 255 bytes.
TooLong(path) == \E k \in 1..Len(path) : path[k] = "LONG"

\* A reference as written in the HTML: a scheme prefix, the number of
\* leading slashes, and the path segments.
Ref(scheme, slashes, segs) ==
    [scheme |-> scheme, slashes |-> slashes, segs |-> segs]

References ==
    { Ref("", 0, <<"p.png">>),
      Ref("", 0, <<"my%20pic.png">>),
      Ref("", 1, <<"q.JPG">>),
      Ref("", 0, <<"missing.png">>),
      Ref("", 1, <<"lesson">>),
      Ref("", 0, <<"..", "q.JPG">>),
      Ref("", 0, <<"LONG">>),
      Ref("", 1, <<"etc", "hostname">>),
      Ref("", 0, <<"..", "..", "secret.txt">>),
      Ref("", 0, <<"%2e%2e", "%2e%2e", "secret.txt">>),
      Ref("data:", 0, <<"image", "png;base64,AAAA">>),
      Ref("http://", 0, <<"cdn", "x.png">>),
      Ref("https://", 0, <<"cdn", "x.png">>),
      Ref("", 2, <<"cdn", "x.png">>) }

\* img_src.startswith('data:') or
\* img_src.startswith(('http://', 'https://', '//'))
Skipped(ref) ==
    \/ ref.scheme = "data:"
    \/ ref.scheme \in {"http://", "https://"}
    \/ (ref.scheme = "" /\ ref.slashes >= 2)

\* urllib.parse.unquote on the segments of the model.
UnquoteSeg(s) ==
    CASE s = "my%20pic.png" -> "my pic.png"
      [] s = "%2e%2e"       -> ".."
      [] OTHER              -> s

unquote(ref) ==
    [ref EXCEPT !.segs = [k \in 1..Len(ref.segs) |-> UnquoteSeg(ref.segs[k])]]

\* img_src.lstrip('/')
lstrip(ref) == [ref EXCEPT !.slashes = 0]

\* base / ref: an absolute reference replaces the base.
Join(base, ref) == IF ref.slashes > 0 THEN ref.segs ELSE base \o ref.segs

\* Mutant: the extraction root is tried before the directory of the HTML
\* file.
possible_paths_RootFirst(ref) ==
    << Join(extracted_path, lstrip(ref)),
       Join(extracted_path, unquote(lstrip(ref))),
       Join(Parent(html_file_path), ref),
       Join(Parent(html_file_path), unquote(ref)) >>

\* possible_paths (lines 363-368, 442-447).
possible_paths(ref) ==
    << Join(Parent(html_file_path), ref),
       Join(Parent(html_file_path), unquote(ref)),
       Join(extracted_path, lstrip(ref)),
       Join(extracted_path, unquote(lstrip(ref))) >>

\* for path in possible_paths: if path.exists() and path.is_file(): the
\* first candidate that is a file.  strict tells whether Path.exists()
\* re-raises ENAMETOOLONG (it does up to Python 3.12) or answers False.
NoPath == <<>>
RECURSIVE FirstFile(_, _)
FirstFile(paths, strict) ==
    IF paths = <<>> THEN [raised |-> FALSE, path |-> NoPath]
    ELSE IF TooLong(Head(paths)) /\ strict
         THEN [raised |-> TRUE, path |-> NoPath]
    ELSE IF ~TooLong(Head(paths)) /\ IsFile(Head(paths))
         THEN [raised |-> FALSE, path |-> Head(paths)]
    ELSE FirstFile(Tail(paths), strict)

\* img_path.stem and img_path.suffix of the file names of the model.
path_stem(name) ==
    CASE name = "p.png"      -> "p"
      [] name = "my pic.png" -> "my pic"
      [] name = "q.JPG"      -> "q"
      [] name = "secret.txt" -> "secret"
      [] name = "a.html"     -> "a"
      [] OTHER               -> name

path_suffix(name) ==
    CASE name \in {"p.png", "my pic.png"} -> ".png"
      [] name = "q.JPG"                   -> ".JPG"
      [] name = "secret.txt"              -> ".txt"
      [] name = "a.html"                  -> ".html"
      [] OTHER                            -> ""

\* new_filename: stem, "_bg" for a background image, the first 8 hex digits
\* of the MD5 of the path string, and the lower-cased suffix or ".bin".  The
\* hash is held as the path string it is computed from: two path strings
\* that differ are taken to give hashes that differ.
NoFile == [stem |-> "", bg |-> FALSE, hash |-> <<>>, ext |-> ""]
new_filename(img_path, bg) ==
    LET name      == img_path[Len(img_path)]
        extension == Lower(path_suffix(name))
    IN  [stem |-> path_stem(name), bg |-> bg, hash |-> img_path,
         ext  |-> IF extension \in ImageExts THEN extension ELSE ".bin"]

\* "/uploads/courses/{course_id}/lessons/{lesson_id}/images/{new_filename}"
NoUrl == [course_id |-> 0, lesson_id |-> 0, filename |-> NoFile]
new_url(cid, lid, fn) ==
    [course_id |-> cid, lesson_id |-> lid, filename |-> fn]

\* The pieces of an HTML document the two patterns tell apart: an <img>
\* tag with its attributes, a background-image declaration, other text.
\* url is the public path written in place of value (NoUrl: still value).
Attr(name, ref) == [name |-> name, value |-> ref, url |-> NoUrl]
Img(attrs) == [kind |-> "img", attrs |-> attrs]
Bg(ref) == [kind |-> "bg", value |-> ref, url |-> NoUrl]
Text == [kind |-> "text"]

\* Attribute names the text src=["'] occurs in.
SrcLike == {"src", "data-src"}

\* img_pattern: [^>]* is greedy, so group 1 is the value of the last
\* attribute the text src=["'] occurs in (0: the tag does not match).
LastSrc(attrs) ==
    LET ks == { k \in 1..Len(attrs) : attrs[k].name \in SrcLike }
    IN  IF ks = {} THEN 0 ELSE CHOOSE k \in ks : \A j \in ks : j <= k

\* match.group(1) of an item a pattern matches.
Captured(item) ==
    IF item.kind = "img" THEN item.attrs[LastSrc(item.attrs)].value
    ELSE item.value

\* re.sub(r'src=["\'][^"\']+["\']', f'src="{new_url}"', img_tag), and
\* new_bg for a background declaration.
Rewrite(item, url) ==
    IF item.kind = "img"
    THEN [item EXCEPT !.attrs =
             [k \in 1..Len(item.attrs) |->
                 IF item.attrs[k].name \in SrcLike
                 THEN [item.attrs[k] EXCEPT !.url = url]
                 ELSE item.attrs[k]]]
    ELSE [item EXCEPT !.url = url]

\* What shutil.copy2 may do: copy the file, fail before it wrote anything,
\* or fail with the destination file already on disk.
CopyOutcomes == {"ok", "failed", "partial"}

\* The body shared by replace_image and replace_background: what is put in
\* place of the match, the records appended to processed_images, the files
\* written to images_dir, and whether shutil.copy2 was called (copied).
Rehome(item, a, copy, strict) ==
    LET ref   == Captured(item)
        found == FirstFile(possible_paths(ref), strict)
        fn    == new_filename(found.path, item.kind = "bg")
        url   == new_url(a.course_id, a.lesson_id, fn)
        untouched == [raised |-> FALSE, item |-> item, records |-> <<>>,
                      files |-> {}, copied |-> FALSE]
    IN  IF Skipped(ref) THEN untouched
        ELSE IF found.raised THEN [untouched EXCEPT !.raised = TRUE]
        ELSE IF found.path = NoPath THEN untouched
        ELSE IF copy = "ok"
             THEN [raised  |-> FALSE,
                   item    |-> Rewrite(item, url),
                   records |-> << [original_path |-> found.path,
                                   original_src  |-> ref,
                                   new_path      |-> fn,
                                   new_url       |-> url,
                                   filename      |-> fn,
                                   type          |-> IF item.kind = "bg"
                                                     THEN "background"
                                                     ELSE "inline"] >>,
                   files   |-> {[name |-> fn, complete |-> TRUE,
                                 bytes |-> Walk(<<>>, found.path)]},
                   copied  |-> TRUE]
        ELSE [untouched EXCEPT !.copied = TRUE,
                               !.files =
                 IF copy = "partial"
                 THEN {[name |-> fn, complete |-> FALSE,
                        bytes |-> Walk(<<>>, found.path)]}
                 ELSE {}]

replace_image(item, a, copy, strict) == Rehome(item, a, copy, strict)
replace_background(item, a, copy, strict) == Rehome(item, a, copy, strict)

\* Writing files into a directory: a file of the same name is replaced.
Put(dir, files) ==
    { g \in dir : \A f \in files : f.name # g.name } \cup files

\* Whether a pattern matches an item.
PatternMatches(kind, item) ==
    /\ item.kind = kind
    /\ kind = "img" => LastSrc(item.attrs) # 0

\* re.sub(pattern, replacement, html): the matches of one pattern from
\* position k on, left to right; an exception ends the pass.
RECURSIVE Pass(_, _, _, _, _)
Pass(kind, k, a, env, acc) ==
    IF acc.raised \/ k > Len(acc.html) THEN acc
    ELSE IF ~PatternMatches(kind, acc.html[k])
         THEN Pass(kind, k + 1, a, env, acc)
    ELSE LET r == IF kind = "img"
                  THEN replace_image(acc.html[k], a, env.copy[k], env.strict)
                  ELSE replace_background(acc.html[k], a, env.copy[k],
                                          env.strict)
         IN  Pass(kind, k + 1, a, env,
                  [raised     |-> r.raised,
                   cause      |-> IF r.raised THEN "stat" ELSE "none",
                   html       |-> [acc.html EXCEPT ![k] = r.item],
                   images     |-> acc.images \o r.records,
                   images_dir |-> Put(acc.images_dir, r.files),
                   copies     |-> IF r.copied
                                  THEN acc.copies \cup
                                         {[at |-> k, outcome |-> env.copy[k]]}
                                  ELSE acc.copies])

\* Mutant: the background pass runs first.
extract_and_process_images_BgFirst(a, env) ==
    LET start == [raised |-> FALSE, cause |-> "none",
                  html |-> a.html_content, images |-> <<>>,
                  images_dir |-> {}, copies |-> {}]
        done  == Pass("img", 1, a, env, Pass("bg", 1, a, env, start))
    IN  IF done.raised
        THEN [done EXCEPT !.html = <<>>, !.images = <<>>]
        ELSE done

\* extract_and_process_images after images_dir was made: the <img> pass,
\* then the background pass over its result.  A raised exception returns
\* nothing and leaves the files copied so far.  copies is what the calls
\* of shutil.copy2 did, by the position of the piece (environment).
extract_and_process_images(a, env) ==
    LET start == [raised |-> FALSE, cause |-> "none",
                  html |-> a.html_content, images |-> <<>>,
                  images_dir |-> {}, copies |-> {}]
        done  == Pass("bg", 1, a, env, Pass("img", 1, a, env, start))
    IN  IF done.raised
        THEN [done EXCEPT !.html = <<>>, !.images = <<>>]
        ELSE done

\* ---------------------------------------------------------- the file loop
\* html_file of the current iteration.
html_file == metadata.html_files[i + 1]

\* Mutant: the ordinal is the loop index itself.
TempTitle_ZeroBased(path, idx, total) ==
    [ordinal |-> IF total > 1 THEN idx ELSE 0, stem |-> Stem(path.name)]

\* temp_title: the stem, prefixed with the ordinal idx + 1 when the package
\* has more than one HTML file (ordinal 0: no prefix).
TempTitle(path, idx, total) ==
    [ordinal |-> IF total > 1 THEN idx + 1 ELSE 0, stem |-> Stem(path.name)]

\* db.commit(): the rows of the lessons the session holds changes for take
\* the converted content.
Flush(rows, dirty) ==
    [k \in 1..Len(rows) |->
        IF rows[k].id \in dirty
        THEN [rows[k] EXCEPT !.content = "markdown"]
        ELSE rows[k]]

\* Mutant: break instead of continue.
PerFileExcept_Break(error) ==
    /\ failed_conversions' =
           Append(failed_conversions, [file |-> html_file, error |-> error])
    /\ lessons_created' = lessons_created
    /\ i' = Len(metadata.html_files)
    /\ lesson_id' = 0
    /\ images_info' = <<>>
    /\ pc' = "loop"

\* except Exception as e (lines 171-177): record the failure of this file
\* and go on with the next one.
PerFileExcept(error) ==
    /\ failed_conversions' =
           Append(failed_conversions, [file |-> html_file, error |-> error])
    /\ lessons_created' = lessons_created
    /\ i' = i + 1
    /\ lesson_id' = 0
    /\ images_info' = <<>>
    /\ pc' = "loop"

\* crud_lesson.create_lesson with the placeholder content (lines 84-97).
CreateLesson ==
    /\ pc = "loop"
    /\ i < Len(metadata.html_files)
    /\ \/ /\ lessons' = Append(Flush(lessons, session),
                               [id      |-> Len(lessons) + 1,
                                title   |-> TempTitle(html_file, i,
                                                Len(metadata.html_files)),
                                content |-> "placeholder",
                                order   |-> i,
                                file    |-> html_file])
          /\ session' = {}
          /\ lesson_id' = Len(lessons) + 1
          /\ pc' = "convert"
          /\ UNCHANGED <<i, images_info, lessons_created, failed_conversions>>
       \/ /\ PerFileExcept("create_lesson")
          /\ UNCHANGED <<lessons, session>>
    /\ UNCHANGED <<fixed, disk, metadata, attachments, background_tasks,
                   response, exc, io_faults>>

\* Records extract_and_process_images may return for one file, by the
\* generated filename: a rehomed file keeps its suffix when it is an image
\* suffix and gets ".bin" otherwise.
AssetPool ==
    << [filename |-> new_filename(html_file_path, FALSE)],
       [filename |-> new_filename(<<"srv", "pkg", "lesson", "p.png">>, FALSE)],
       [filename |-> new_filename(<<"srv", "pkg", "q.JPG">>, TRUE)],
       [filename |-> new_filename(<<"srv", "pkg", "p.png">>, FALSE)] >>

\* The lists images_info the conversion of a file may return.
ImagesInfos == { SubSeq(AssetPool, 1, n) : n \in 0..MaxImages }

\* convert_to_markdown_with_images and the update of the lesson object
\* (lines 100-123); the update stays in the session until a commit.
Convert ==
    /\ pc = "convert"
    /\ \/ /\ images_info' \in ImagesInfos
          /\ session' = session \cup {lesson_id}
          /\ pc' = "attach"
          /\ UNCHANGED <<i, lesson_id, lessons_created, failed_conversions>>
       \/ /\ PerFileExcept("convert")
          /\ UNCHANGED session
    /\ UNCHANGED <<fixed, disk, metadata, lessons, attachments,
                   background_tasks, response, exc, io_faults>>

\* Mutant: an extension outside the map is taken for an image type.
MimeType_Image(ext) ==
    CASE ext \in {".jpg", ".jpeg"} -> "image/jpeg"
      [] ext = ".png"              -> "image/png"
      [] OTHER                     -> "image/bin"

\* mime_types.get(ext, 'application/octet-stream') (lines 129-139).
MimeType(ext) ==
    CASE ext = ".jpg"  -> "image/jpeg"
      [] ext = ".jpeg" -> "image/jpeg"
      [] ext = ".png"  -> "image/png"
      [] ext = ".gif"  -> "image/gif"
      [] ext = ".bmp"  -> "image/bmp"
      [] ext = ".svg"  -> "image/svg+xml"
      [] ext = ".webp" -> "image/webp"
      [] OTHER         -> "application/octet-stream"

\* The attachment rows made for the first n records of images_info: one
\* per record, with the MIME type of the suffix of its filename.
AttachmentRows(lid, infos, n) ==
    [k \in 1..n |-> [lesson_id |-> lid, idx |-> k,
                     file_name |-> infos[k].filename,
                     mime_type |-> MimeType(infos[k].filename.ext)]]

\* for img_info in images_info: stat the copy and create_attachment, which
\* commits (lines 127-156).  An exception at asset made + 1 leaves the rows
\* made before it.
Attach ==
    /\ pc = "attach"
    /\ \/ /\ attachments' = attachments \o
                 AttachmentRows(lesson_id, images_info, Len(images_info))
          /\ lessons' = IF images_info # <<>> THEN Flush(lessons, session)
                        ELSE lessons
          /\ session' = IF images_info # <<>> THEN {} ELSE session
          /\ pc' = "commit"
          /\ UNCHANGED loop
       \/ \E made \in 0..(Len(images_info) - 1) :
            /\ attachments' = attachments \o
                   AttachmentRows(lesson_id, images_info, made)
            /\ lessons' = IF made > 0 THEN Flush(lessons, session) ELSE lessons
            /\ session' = IF made > 0 THEN {} ELSE session
            /\ PerFileExcept("attachment")
    /\ UNCHANGED <<fixed, disk, metadata, background_tasks, response, exc,
                   io_faults>>

\* db.commit(), db.refresh(lesson) and lessons_created.append (lines 158-167).
Commit ==
    /\ pc = "commit"
    /\ \/ /\ lessons' = Flush(lessons, session)
          /\ session' = {}
          /\ lessons_created' =
                 Append(lessons_created,
                        [id           |-> lesson_id,
                         title        |-> TempTitle(html_file, i,
                                              Len(metadata.html_files)),
                         file         |-> html_file,
                         images_count |-> Len(images_info)])
          /\ i' = i + 1
          /\ lesson_id' = 0
          /\ images_info' = <<>>
          /\ pc' = "loop"
          /\ UNCHANGED failed_conversions
       \/ /\ PerFileExcept("commit")
          /\ UNCHANGED <<lessons, session>>
    /\ UNCHANGED <<fixed, disk, metadata, attachments, background_tasks,
                   response, exc, io_faults>>

\* ------------------------------------------------------- end of the call
\* What shutil.rmtree(temp_dir) removes: the directory and what lies in it.
UploadAfterRmtree(where) == IF where = "inside" THEN "none" ELSE where

\* shutil.rmtree(temp_dir) after the loop (line 180); it is not guarded, so
\* a failure is a top-level exception.
RemoveTemp ==
    /\ pc = "loop"
    /\ i = Len(metadata.html_files)
    /\ \/ /\ temp_dir' = FALSE
          /\ upload' = UploadAfterRmtree(upload)
          /\ pc' = "add_task"
          /\ UNCHANGED <<exc, io_faults>>
       \/ /\ pc' = "except"
          /\ exc' = [type |-> "rmtree", cause |-> "temp_dir"]
          /\ io_faults' = io_faults \cup {"temp_dir"}
          /\ UNCHANGED <<temp_dir, upload>>
    /\ UNCHANGED <<fixed, extract_dir, metadata, loop, db,
                   background_tasks, response>>

\* Mutant: the directory is removed in the call itself.
AddTask_Sync ==
    /\ pc = "add_task"
    /\ extract_dir' = FALSE
    /\ pc' = "respond"
    /\ UNCHANGED <<fixed, temp_dir, upload, metadata, loop, db,
                   background_tasks, response, exc, io_faults>>

\* background_tasks.add_task(scorm_parser.cleanup_extracted_files,
\* extracted_path) (lines 183-184); the framework always passes the
\* BackgroundTasks object of the request.
AddTask ==
    /\ pc = "add_task"
    /\ background_tasks' = Append(background_tasks, "cleanup_extracted_files")
    /\ pc' = "respond"
    /\ UNCHANGED <<fixed, disk, metadata, loop, db, response, exc,
                   io_faults>>

\* sum(lesson.get('images_count', 0) for lesson in lessons_created)
RECURSIVE SumImages(_)
SumImages(list) ==
    IF list = <<>> THEN 0
    ELSE Head(list).images_count + SumImages(Tail(list))

\* Mutant: total_files_found counts the lessons made.
SummaryResponse_CountMade(made, failed, meta) ==
    [status  |-> 200,
     kind    |-> "summary",
     summary |-> [total_files_found  |-> Len(made),
                  lessons_created    |-> Len(made),
                  failed_conversions |-> Len(failed),
                  total_images_found |-> Len(meta.image_files),
                  images_processed   |-> SumImages(made)],
     lessons_created    |-> made,
     failed_conversions |-> [null |-> failed = <<>>, items |-> failed],
     warning            |-> failed # <<>>]

\* Mutant: failed_conversions is the list itself, never null.
SummaryResponse_NeverNull(made, failed, meta) ==
    [status  |-> 200,
     kind    |-> "summary",
     summary |-> [total_files_found  |-> Len(meta.html_files),
                  lessons_created    |-> Len(made),
                  failed_conversions |-> Len(failed),
                  total_images_found |-> Len(meta.image_files),
                  images_processed   |-> SumImages(made)],
     lessons_created    |-> made,
     failed_conversions |-> [null |-> FALSE, items |-> failed],
     warning            |-> failed # <<>>]

\* The response body (lines 186-206).
SummaryResponse(made, failed, meta) ==
    [status  |-> 200,
     kind    |-> "summary",
     summary |-> [total_files_found  |-> Len(meta.html_files),
                  lessons_created    |-> Len(made),
                  failed_conversions |-> Len(failed),
                  total_images_found |-> Len(meta.image_files),
                  images_processed   |-> SumImages(made)],
     lessons_created    |-> made,
     failed_conversions |-> [null |-> failed = <<>>, items |-> failed],
     warning            |-> failed # <<>>]

\* return response (line 209).
Respond ==
    /\ pc = "respond"
    /\ response' = SummaryResponse(lessons_created, failed_conversions, metadata)
    /\ pc' = "done"
    /\ UNCHANGED <<fixed, disk, metadata, loop, db, background_tasks, exc,
                   io_faults>>

\* The top-level except clause (lines 211-224): remove temp_dir if it is
\* there, swallowing a failure, and answer 500.
Except ==
    /\ pc = "except"
    /\ \/ /\ temp_dir' = FALSE
          /\ upload' = UploadAfterRmtree(upload)
          /\ UNCHANGED io_faults
       \/ /\ temp_dir
          /\ io_faults' = io_faults \cup {"temp_dir"}
          /\ UNCHANGED <<temp_dir, upload>>
    /\ response' = [status |-> 500, kind |-> "error"]
    /\ pc' = "done"
    /\ UNCHANGED <<fixed, extract_dir, metadata, loop, db,
                   background_tasks, exc>>

\* cleanup_extracted_files run by the framework after the response was
\* sent (scorm_parser.py 683-691): a failure of the removal is logged only.
CleanupExtracted ==
    /\ pc = "done"
    /\ background_tasks # <<>>
    /\ background_tasks' = Tail(background_tasks)
    /\ \/ /\ extract_dir' = FALSE
          /\ UNCHANGED io_faults
       \/ /\ extract_dir
          /\ io_faults' = io_faults \cup {"extract_dir"}
          /\ UNCHANGED extract_dir
    /\ UNCHANGED <<pc, fixed, temp_dir, upload, metadata, loop, db,
                   response, exc>>

Next ==
    \/ Validate
    \/ MkTemp
    \/ SaveUpload
    \/ ExtractStaleFail
    \/ ExtractOk(ImportPackages)
    \/ ExtractFail(ImportPackages)
    \/ CreateLesson
    \/ Convert
    \/ Attach
    \/ Commit
    \/ RemoveTemp
    \/ AddTask
    \/ Respond
    \/ Except
    \/ CleanupExtracted

Spec == Init /\ [][Next]_vars

\* The handler runs to its end and the framework runs every background
\* task it was given.
FairSpec == Spec /\ WF_vars(Next)

\* extract_scorm_package on its own: called with an upload in place, on
\* every package of the model; arg is the archive it is given.
ExtractInit ==
    /\ pc = "extract"
    /\ filename = [dir |-> "", base |-> "pkg", suffix |-> ".zip"]
    /\ temp_dir = TRUE
    /\ upload = "inside"
    /\ extract_dir \in BOOLEAN
    /\ metadata = NoMetadata
    /\ i = 0
    /\ lesson_id = 0
    /\ images_info = <<>>
    /\ lessons_created = <<>>
    /\ failed_conversions = <<>>
    /\ lessons = <<>>
    /\ attachments = <<>>
    /\ session = {}
    /\ background_tasks = <<>>
    /\ response = NoResponse
    /\ exc = NoExc
    /\ io_faults = {}
    /\ arg \in Packages
    /\ result = NoCall

ExtractNext ==
    \/ ExtractStaleFail
    \/ ExtractOk({arg})
    \/ ExtractFail({arg})

ExtractSpec == ExtractInit /\ [][ExtractNext]_vars


\* ------------------------------------------------------- _html_to_markdown
\* A text is a sequence of symbols: a character, or a whole tag where the
\* patterns of the converter only ever take tags whole.  "NL", "TAB" and
\* "NBSP" are the newline, the tab and the no-break space; "U+00A9" and its
\* like are the characters of those code points.
OpenTags(tag) ==
    CASE tag = "h1"     -> {"<h1>"}
      [] tag = "h2"     -> {"<h2>", "<h2 id='s'>"}
      [] tag = "h3"     -> {"<h3>", "<H3>"}
      [] tag = "h4"     -> {"<h4>"}
      [] tag = "h5"     -> {"<h5>"}
      [] tag = "h6"     -> {"<h6>"}
      [] tag = "b"      -> {"<b>"}
      [] tag = "strong" -> {"<strong>"}
      [] tag = "i"      -> {"<i>"}
      [] tag = "em"     -> {"<em>"}
      [] tag = "u"      -> {"<u>"}
      [] tag = "li"     -> {"<li>"}
      [] tag = "p"      -> {"<p>"}
      [] tag = "script" -> {"<script>"}
      [] tag = "style"  -> {"<style>"}
      [] OTHER          -> {}

CloseTags(tag) ==
    CASE tag = "h1"     -> {"</h1>"}
      [] tag = "h2"     -> {"</h2>"}
      [] tag = "h3"     -> {"</h3>", "</H3>"}
      [] tag = "h4"     -> {"</h4>"}
      [] tag = "h5"     -> {"</h5>"}
      [] tag = "h6"     -> {"</h6>"}
      [] tag = "b"      -> {"</b>"}
      [] tag = "strong" -> {"</strong>"}
      [] tag = "i"      -> {"</i>"}
      [] tag = "em"     -> {"</em>"}
      [] tag = "u"      -> {"</u>"}
      [] tag = "li"     -> {"</li>"}
      [] tag = "p"      -> {"</p>"}
      [] tag = "script" -> {"</script>"}
      [] tag = "style"  -> {"</style>"}
      [] OTHER          -> {}

PairedTags == {"h1", "h2", "h3", "h4", "h5", "h6", "b", "strong", "i", "em",
               "u", "li", "p", "script", "style"}

\* Every symbol that is a tag: what <[^>]*> matches.
TagSymbols ==
    UNION { OpenTags(t) \cup CloseTags(t) : t \in PairedTags }
    \cup {"<ul>", "</ul>", "<ol>", "</ol>", "<br>", "<br/>", "<hr>",
          "<div>", "</div>", "<span>", "</span>"}

\* Position of the first symbol of S in s at or after from (0: none).
FirstIn(s, S, from) ==
    LET hits == { k \in from..Len(s) : s[k] \in S }
    IN  IF hits = {} THEN 0 ELSE CHOOSE k \in hits : \A j \in hits : k <= j

\* re.sub(r'<tag[^>]*>(.*?)</tag>', pre + r'\1' + post, s) with DOTALL:
\* each opening tag with the nearest closing tag after it, left to right.
RECURSIVE SubPair(_, _, _, _)
SubPair(s, tag, pre, post) ==
    LET o == FirstIn(s, OpenTags(tag), 1)
        c == IF o = 0 THEN 0 ELSE FirstIn(s, CloseTags(tag), o + 1)
    IN  IF c = 0 THEN s
        ELSE SubSeq(s, 1, o - 1) \o pre \o SubSeq(s, o + 1, c - 1) \o post
             \o SubPair(SubSeq(s, c + 1, Len(s)), tag, pre, post)

\* re.sub(r'<tag[^>]*>.*?</tag>', '', s): the element goes with its content.
RECURSIVE SubBlock(_, _)
SubBlock(s, tag) ==
    LET o == FirstIn(s, OpenTags(tag), 1)
        c == IF o = 0 THEN 0 ELSE FirstIn(s, CloseTags(tag), o + 1)
    IN  IF c = 0 THEN s
        ELSE SubSeq(s, 1, o - 1) \o SubBlock(SubSeq(s, c + 1, Len(s)), tag)

\* re.sub over single tags: every symbol of S becomes rep.
RECURSIVE SubEach(_, _, _)
SubEach(s, S, rep) ==
    IF s = <<>> THEN <<>>
    ELSE (IF Head(s) \in S THEN rep ELSE <<Head(s)>>)
         \o SubEach(Tail(s), S, rep)

\* Mutant: one hash too many.
Hashes_OneMore(n) == [k \in 1..(n + 1) |-> "#"]

\* '#' * n
Hashes(n) == [k \in 1..n |-> "#"]

HeadingTag(n) ==
    CASE n = 1 -> "h1" [] n = 2 -> "h2" [] n = 3 -> "h3"
      [] n = 4 -> "h4" [] n = 5 -> "h5" [] OTHER  -> "h6"

\* for i in range(6, 0, -1): <hi>text</hi> becomes i hashes, a space, the
\* text and two newlines (lines 544-551).
RECURSIVE Headings(_, _)
Headings(s, n) ==
    IF n = 0 THEN s
    ELSE Headings(SubPair(s, HeadingTag(n), Hashes(n) \o <<" ">>,
                          <<"NL", "NL">>),
                  n - 1)

\* Lines 553-567: bold, italic and underline spans.
Emphasis(s) ==
    LET bold   == SubPair(SubPair(s, "b", <<"*", "*">>, <<"*", "*">>),
                          "strong", <<"*", "*">>, <<"*", "*">>)
        italic == SubPair(SubPair(bold, "i", <<"*">>, <<"*">>),
                          "em", <<"*">>, <<"*">>)
    IN  SubPair(italic, "u", <<"_">>, <<"_">>)

\* Lines 591-605: list items, list containers, paragraphs, line breaks and
\* rules.
Blocks(s) ==
    LET items  == SubPair(s, "li", <<"*", " ">>, <<"NL">>)
        lists  == SubEach(items, {"<ul>", "</ul>", "<ol>", "</ol>"}, <<>>)
        paras  == SubPair(lists, "p", <<>>, <<"NL", "NL">>)
        breaks == SubEach(paras, {"<br>", "<br/>"}, <<" ", " ", "NL">>)
    IN  SubEach(breaks, {"<hr>"}, <<"NL", "-", "-", "-", "NL">>)

\* re.sub(r'<[^>]*>', '', text): the tags that are left go (line 618).
StripTags(s) == SubEach(s, TagSymbols, <<>>)

\* Whether pat stands in s at position k.
StandsAt(s, k, pat) ==
    /\ k + Len(pat) - 1 <= Len(s)
    /\ SubSeq(s, k, k + Len(pat) - 1) = pat

\* text.replace(pat, rep)
RECURSIVE Replace(_, _, _)
Replace(s, pat, rep) ==
    IF s = <<>> THEN <<>>
    ELSE IF StandsAt(s, 1, pat)
         THEN rep \o Replace(SubSeq(s, Len(pat) + 1, Len(s)), pat, rep)
         ELSE <<Head(s)>> \o Replace(Tail(s), pat, rep)

\* html_entities (lines 621-637), in the order of the dictionary.
html_entities ==
    << <<<<"&", "n", "b", "s", "p", ";">>, <<" ">>>>,
       <<<<"&", "l", "t", ";">>, <<"<">>>>,
       <<<<"&", "g", "t", ";">>, <<">">>>>,
       <<<<"&", "a", "m", "p", ";">>, <<"&">>>>,
       <<<<"&", "q", "u", "o", "t", ";">>, <<"\"">>>>,
       <<<<"&", "#", "3", "9", ";">>, <<"'">>>>,
       <<<<"&", "a", "p", "o", "s", ";">>, <<"'">>>>,
       <<<<"&", "c", "o", "p", "y", ";">>, <<"(", "c", ")">>>>,
       <<<<"&", "r", "e", "g", ";">>, <<"(", "r", ")">>>>,
       <<<<"&", "t", "r", "a", "d", "e", ";">>, <<"(", "t", "m", ")">>>>,
       <<<<"&", "m", "d", "a", "s", "h", ";">>, <<"U+2014">>>>,
       <<<<"&", "n", "d", "a", "s", "h", ";">>, <<"U+2013">>>>,
       <<<<"&", "h", "e", "l", "l", "i", "p", ";">>, <<".", ".", ".">>>>,
       <<<<"&", "l", "a", "q", "u", "o", ";">>, <<"U+00AB">>>>,
       <<<<"&", "r", "a", "q", "u", "o", ";">>, <<"U+00BB">>>> >>

\* for entity, replacement in html_entities.items(): text.replace(...)
RECURSIVE NamedEntities(_, _)
NamedEntities(s, k) ==
    IF k > Len(html_entities) THEN s
    ELSE NamedEntities(Replace(s, html_entities[k][1], html_entities[k][2]),
                       k + 1)

\* Value of a digit; 16 and more for what is no digit.
DigitVal(c) ==
    CASE c = "0" -> 0 [] c = "1" -> 1 [] c = "2" -> 2 [] c = "3" -> 3
      [] c = "4" -> 4 [] c = "5" -> 5 [] c = "6" -> 6 [] c = "7" -> 7
      [] c = "8" -> 8 [] c = "9" -> 9
      [] c \in {"a", "A"} -> 10 [] c \in {"b", "B"} -> 11
      [] c \in {"c", "C"} -> 12 [] c \in {"d", "D"} -> 13
      [] c \in {"e", "E"} -> 14 [] c \in {"f", "F"} -> 15
      [] OTHER -> 16

\* int(digits, base)
RECURSIVE IntOf(_, _)
IntOf(digits, base) ==
    IF digits = <<>> THEN 0
    ELSE IntOf(SubSeq(digits, 1, Len(digits) - 1), base) * base
         + DigitVal(digits[Len(digits)])

\* The largest code point chr() accepts.
MaxCodePoint == 1114111

\* chr(n) for the code points the texts of the model name.
Chr(n) ==
    CASE n = 9     -> "TAB"
      [] n = 10    -> "NL"
      [] n = 32    -> " "
      [] n = 38    -> "&"
      [] n = 60    -> "<"
      [] n = 62    -> ">"
      [] n = 65    -> "A"
      [] n = 160   -> "NBSP"
      [] n = 169   -> "U+00A9"
      [] OTHER     -> "U+OTHER"

\* Where the run of digits of the given base that starts at from ends
\* (from - 1: no digit there).
RECURSIVE RunEnd(_, _, _)
RunEnd(s, from, base) ==
    IF from <= Len(s) /\ DigitVal(s[from]) < base
    THEN RunEnd(s, from + 1, base)
    ELSE from - 1

\* Mutant: the value is not checked against the range of chr.
replace_entity_Unchecked(match, digits, base) ==
    <<Chr(IntOf(digits, base))>>

\* replace_decimal_entity and replace_hex_entity: chr(int(...)), or the
\* match itself when chr raises.
replace_entity(match, digits, base) ==
    IF IntOf(digits, base) <= MaxCodePoint
    THEN <<Chr(IntOf(digits, base))>>
    ELSE match

\* re.sub(r'&#(\d+);', replace_decimal_entity, text) for prefix "&#" and
\* base 10, re.sub(r'&#x([0-9a-fA-F]+);', replace_hex_entity, text) for
\* prefix "&#x" and base 16.
RECURSIVE NumericEntities(_, _, _)
NumericEntities(s, prefix, base) ==
    IF s = <<>> THEN <<>>
    ELSE LET from == Len(prefix) + 1
             to   == RunEnd(s, from, base)
         IN  IF /\ StandsAt(s, 1, prefix)
                /\ to >= from
                /\ to < Len(s)
                /\ s[to + 1] = ";"
             THEN replace_entity(SubSeq(s, 1, to + 1),
                                 SubSeq(s, from, to), base)
                  \o NumericEntities(SubSeq(s, to + 2, Len(s)), prefix, base)
             ELSE <<Head(s)>> \o NumericEntities(Tail(s), prefix, base)

\* What [ \t] and what \s match.
Blank == {" ", "TAB"}
Space == {" ", "TAB", "NL", "NBSP"}

\* re.sub(r'[ \t]+', ' ', text)
RECURSIVE SubBlanks(_)
SubBlanks(s) ==
    IF s = <<>> THEN <<>>
    ELSE IF Head(s) \in Blank
         THEN LET to == CHOOSE k \in 1..Len(s) :
                            /\ \A j \in 1..k : s[j] \in Blank
                            /\ (k < Len(s) => s[k + 1] \notin Blank)
              IN  <<" ">> \o SubBlanks(SubSeq(s, to + 1, Len(s)))
         ELSE <<Head(s)>> \o SubBlanks(Tail(s))

\* re.sub(r'\n[ \t]+\n', '\n\n', text) (within = Blank, at least one) and
\* re.sub(r'\n\s*\n', '\n\n', text) (within = Space, any number): from a
\* newline to the last newline the run of within symbols after it lets
\* the pattern end on.
RECURSIVE SubBlankLines(_, _, _)
SubBlankLines(s, within, least) ==
    IF s = <<>> THEN <<>>
    ELSE LET ends == { k \in (2 + least)..Len(s) :
                          /\ s[k] = "NL"
                          /\ \A j \in 2..(k - 1) : s[j] \in within }
         IN  IF Head(s) = "NL" /\ ends # {}
             THEN LET to == CHOOSE k \in ends : \A j \in ends : j <= k
                  IN  <<"NL", "NL">>
                      \o SubBlankLines(SubSeq(s, to + 1, Len(s)), within, least)
             ELSE <<Head(s)>> \o SubBlankLines(Tail(s), within, least)

\* str.strip()
RECURSIVE strip(_)
strip(s) ==
    IF s = <<>> THEN s
    ELSE IF Head(s) \in Space THEN strip(Tail(s))
    ELSE IF s[Len(s)] \in Space THEN strip(SubSeq(s, 1, Len(s) - 1))
    ELSE s

\* Lines 659-664.
Whitespace(s) ==
    strip(SubBlankLines(SubBlankLines(SubBlanks(s), Blank, 1), Space, 0))

\* The steps of _html_to_markdown in the order of the code, each one an
\* assignment to html_content.  No symbol of the model is a link, an image
\* or a table tag, so the substitutions of lines 569-589 and 607-615 leave
\* the texts of the model as they are.
MarkdownSteps ==
    <<"remove", "headings", "emphasis", "blocks", "strip_tags", "named",
      "decimal", "hex", "whitespace">>

MarkdownStepOf(step, html_content) ==
    CASE step = "remove"     ->
             SubBlock(SubBlock(html_content, "script"), "style")
      [] step = "headings"   -> Headings(html_content, 6)
      [] step = "emphasis"   -> Emphasis(html_content)
      [] step = "blocks"     -> Blocks(html_content)
      [] step = "strip_tags" -> StripTags(html_content)
      [] step = "named"      -> NamedEntities(html_content, 1)
      [] step = "decimal"    -> NumericEntities(html_content, <<"&", "#">>, 10)
      [] step = "hex"        ->
             NumericEntities(html_content, <<"&", "#", "x">>, 16)
      [] OTHER               -> Whitespace(html_content)

\* ------------------------------------------------------------ text codecs
\* Bytes are numbers 0..255 and characters are code points.  The byte
\* values of the model: space, "A" and seven high bytes, among them the three of
\* the UTF-8 byte-order mark.
ByteValues == {32, 65, 208, 144, 152, 233, 239, 187, 191}

HighBytes == <<208, 144, 152, 233, 239, 187, 191>>

\* b'\xef\xbb\xbf'
BOM == <<239, 187, 191>>

\* The value of a byte that a code page leaves undefined.
NoChar == 0 - 1

\* The codec a name stands for.
Codec(encoding) ==
    CASE encoding = "windows-1251" -> "cp1251"
      [] encoding = "ibm866"       -> "cp866"
      [] encoding = "latin-1"      -> "iso-8859-1"
      [] OTHER                     -> encoding

\* The code points of HighBytes in each single-byte code page.
CodePages ==
    ("cp1251"      :> <<1056, 1106, NoChar, 1081, 1087, 187, 1111>>) @@
    ("koi8-r"      :> <<1087, 9617, 8804, 1048, 1054, 9577, 169>>) @@
    ("koi8-u"      :> <<1087, 9617, 8804, 1048, 1054, 9577, 169>>) @@
    ("iso-8859-1"  :> <<208, 144, 152, 233, 239, 187, 191>>) @@
    ("iso-8859-5"  :> <<1072, 144, 152, 1097, 1103, 1051, 1055>>) @@
    ("iso-8859-15" :> <<208, 144, 152, 233, 239, 187, 191>>) @@
    ("cp866"       :> <<9576, 1056, 1064, 1097, 1103, 9559, 9488>>) @@
    ("maccyrillic" :> <<8211, 1056, 1064, 1081, 1087, 1111, 1114>>)

\* The character of one byte in a single-byte code page.
CharOf(codec, b) ==
    IF b < 128 THEN b
    ELSE CodePages[codec][CHOOSE k \in 1..Len(HighBytes) : HighBytes[k] = b]

Undecodable == [ok |-> FALSE, text |-> <<>>]

\* bytes.decode of a single-byte code page: UnicodeDecodeError on a byte
\* the code page leaves undefined.
charmap_decode(codec, bytes) ==
    IF \E k \in 1..Len(bytes) : CharOf(codec, bytes[k]) = NoChar
    THEN Undecodable
    ELSE [ok |-> TRUE, text |-> [k \in 1..Len(bytes) |-> CharOf(codec, bytes[k])]]

\* Length of the UTF-8 sequence a byte starts (0: it starts none).
Utf8Length(b) ==
    IF b < 128 THEN 1
    ELSE IF b \in 194..223 THEN 2
    ELSE IF b \in 224..239 THEN 3
    ELSE IF b \in 240..244 THEN 4
    ELSE 0

\* The code point of a UTF-8 sequence of n bytes.
Utf8CodePoint(seq, n) ==
    CASE n = 1 -> seq[1]
      [] n = 2 -> (seq[1] - 192) * 64 + (seq[2] - 128)
      [] n = 3 -> (seq[1] - 224) * 4096 + (seq[2] - 128) * 64 + (seq[3] - 128)
      [] n = 4 -> (seq[1] - 240) * 262144 + (seq[2] - 128) * 4096
                      + (seq[3] - 128) * 64 + (seq[4] - 128)

\* bytes.decode('utf-8'): strict, so a truncated sequence, a stray
\* continuation byte, an overlong form and a surrogate are errors.
RECURSIVE utf_8_decode(_)
utf_8_decode(bytes) ==
    IF bytes = <<>> THEN [ok |-> TRUE, text |-> <<>>]
    ELSE LET n == Utf8Length(Head(bytes))
         IN  IF \/ n = 0
                \/ Len(bytes) < n
                \/ \E k \in 2..n : bytes[k] \notin 128..191
             THEN Undecodable
             ELSE LET c == Utf8CodePoint(bytes, n)
                      rest == utf_8_decode(SubSeq(bytes, n + 1, Len(bytes)))
                  IN  IF \/ n = 3 /\ c < 2048
                         \/ n = 4 /\ (c < 65536 \/ c > MaxCodePoint)
                         \/ c \in 55296..57343
                         \/ ~rest.ok
                      THEN Undecodable
                      ELSE [ok |-> TRUE, text |-> <<c>> \o rest.text]

\* str.encode('utf-8')
RECURSIVE utf_8_encode(_)
utf_8_encode(text) ==
    IF text = <<>> THEN <<>>
    ELSE LET c == Head(text)
             seq == IF c < 128 THEN <<c>>
                    ELSE IF c < 2048
                         THEN <<192 + (c \div 64), 128 + (c % 64)>>
                    ELSE IF c < 65536
                         THEN <<224 + (c \div 4096), 128 + ((c \div 64) % 64),
                                128 + (c % 64)>>
                    ELSE <<240 + (c \div 262144), 128 + ((c \div 4096) % 64),
                           128 + ((c \div 64) % 64), 128 + (c % 64)>>
         IN  seq \o utf_8_encode(Tail(text))

\* A sequence starts with another.
startswith(s, prefix) ==
    /\ Len(s) >= Len(prefix)
    /\ SubSeq(s, 1, Len(prefix)) = prefix

\* bytes.decode(encoding); utf-8-sig drops one byte-order mark at the
\* start.
Decode(encoding, bytes) ==
    CASE Codec(encoding) = "utf-8" -> utf_8_decode(bytes)
      [] Codec(encoding) = "utf-8-sig" ->
             utf_8_decode(IF startswith(bytes, BOM)
                          THEN SubSeq(bytes, Len(BOM) + 1, Len(bytes))
                          ELSE bytes)
      [] OTHER -> charmap_decode(Codec(encoding), bytes)

\* --------------------------------------------------- detect_file_encoding
\* A file is a sequence of runs: count copies of one byte value.
Run(b, n) == [byte |-> b, count |-> n]

Least(a, b) == IF a < b THEN a ELSE b

\* The first n bytes of a sequence of runs: f.read(n), data[:n].
RECURSIVE Take(_, _)
Take(runs, n) ==
    IF runs = <<>> \/ n = 0 THEN <<>>
    ELSE <<Run(Head(runs).byte, Least(Head(runs).count, n))>>
             \o Take(Tail(runs), n - Least(Head(runs).count, n))

\* The bytes of a sequence of runs, a run of ASCII bytes held as one byte:
\* every codec of the lists decodes an ASCII byte into the same character
\* whatever stands around it.
RECURSIVE Squeeze(_)
Squeeze(runs) ==
    IF runs = <<>> THEN <<>>
    ELSE LET r == Head(runs)
         IN  (IF r.byte < 128 THEN <<r.byte>>
              ELSE [k \in 1..r.count |-> r.byte]) \o Squeeze(Tail(runs))

\* encodings (lines 248-256)
detect_encodings ==
    <<"utf-8", "utf-8-sig", "cp1251", "windows-1251", "koi8-r", "koi8-u",
      "iso-8859-1", "iso-8859-5", "iso-8859-15", "cp866", "ibm866",
      "maccyrillic", "latin-1">>

\* ord('А') <= ord(c) <= ord('я'), all of them letters (line 275)
Cyrillic(c) == c \in 1040..1103

\* A detector that prefers an encoding whose text shows Cyrillic letters.
detect_file_encoding_PreferCyrillic(file) ==
    LET test_data == Squeeze(Take(Take(file.runs, 4096), 1000))
        decoding  == { k \in 1..Len(detect_encodings) :
                          Decode(detect_encodings[k], test_data).ok }
        cyrillic  == { k \in decoding :
                          \E j \in 1..Len(test_data) :
                              Cyrillic(Decode(detect_encodings[k], test_data).text[j]) }
        pick      == IF cyrillic # {} THEN cyrillic ELSE decoding
    IN  IF pick = {} THEN [encoding |-> "utf-8", reason |-> "Fallback"]
        ELSE [encoding |-> detect_encodings[CHOOSE k \in pick : \A j \in pick : k <= j],
              reason   |-> IF cyrillic # {} THEN "Cyrillic detected" ELSE "Success"]

\* detect_file_encoding (lines 245-286)
detect_file_encoding(file) ==
    IF ~file.readable THEN [encoding |-> "utf-8", reason |-> "Error"]
    ELSE
    LET raw_data == Take(file.runs, 4096)
    IN  IF startswith(Squeeze(Take(raw_data, Len(BOM))), BOM)
        THEN [encoding |-> "utf-8-sig", reason |-> "BOM detected"]
        ELSE
        LET test_data == Squeeze(Take(raw_data, 1000))
            decoded(k) == Decode(detect_encodings[k], test_data)
            passed == { k \in 1..Len(detect_encodings) : decoded(k).ok }
        IN  IF passed = {}
            THEN [encoding |-> "utf-8", reason |-> "Fallback"]
            ELSE LET k == CHOOSE k \in passed : \A j \in passed : k <= j
                 IN  [encoding |-> detect_encodings[k],
                      reason |->
                         IF \E j \in 1..Len(decoded(k).text) :
                                Cyrillic(decoded(k).text[j])
                         THEN "Cyrillic detected" ELSE "Success"]

\* ----------------------------------------------------------- parse_manifest
\* encodings (lines 24-25)
manifest_encodings ==
    <<"utf-8", "utf-8-sig", "cp1251", "windows-1251", "iso-8859-1",
      "latin-1", "koi8-r", "cp866", "maccyrillic">>

\* A manifest file is an optional byte-order mark, ASCII markup, and the
\* bytes of the title inside the markup: [bom, body].  Its decoded content
\* is the text before the markup and the text of the title.
Content(encoding, file) ==
    LET before == Decode(encoding, IF file.bom THEN BOM ELSE <<>>)
        title  == Decode(encoding, file.body)
    IN  [ok |-> before.ok /\ title.ok, before |-> before.text,
         title |-> title.text]

\* The Char production of XML 1.0.
XmlChar(c) ==
    \/ c \in {9, 10, 13}
    \/ c \in 32..55295
    \/ c \in 57344..65533
    \/ c \in 65536..MaxCodePoint

\* ET.fromstring(content) succeeds: nothing but one byte-order mark stands
\* before the markup, and the title is character data.
WellFormed(content) ==
    /\ content.before \in {<<>>, <<65279>>}
    /\ \A k \in 1..Len(content.title) :
           XmlChar(content.title[k]) /\ content.title[k] \notin {38, 60}

\* str.isspace() on the characters of the code pages.
IsSpace(c) == c \in {9, 10, 11, 12, 13, 28, 29, 30, 31, 32, 133, 160}

\* str.strip()
RECURSIVE str_strip(_)
str_strip(text) ==
    IF text = <<>> THEN text
    ELSE IF IsSpace(Head(text)) THEN str_strip(Tail(text))
    ELSE IF IsSpace(text[Len(text)])
         THEN str_strip(SubSeq(text, 1, Len(text) - 1))
    ELSE text

\* bytes.decode('utf-8', errors='ignore'): the bytes that belong to no
\* character are dropped.
RECURSIVE utf_8_decode_ignore(_)
utf_8_decode_ignore(bytes) ==
    IF bytes = <<>> THEN <<>>
    ELSE LET n == Utf8Length(Head(bytes))
             one == IF n = 0 \/ Len(bytes) < n THEN Undecodable
                    ELSE utf_8_decode(SubSeq(bytes, 1, n))
         IN  IF one.ok
             THEN one.text \o utf_8_decode_ignore(SubSeq(bytes, n + 1, Len(bytes)))
             ELSE utf_8_decode_ignore(Tail(bytes))

\* The metadata of a parsed manifest; an empty title is a missing one.
Metadata(used_encoding, content) ==
    [raised |-> FALSE, encoding_used |-> used_encoding,
     title |-> str_strip(content.title)]

\* The loop of lines 30-43 from the k-th encoding on: the place of the
\* first encoding that decodes the file into well-formed XML (0: none).
RECURSIVE FirstParsing(_, _)
FirstParsing(file, k) ==
    IF k > Len(manifest_encodings) THEN 0
    ELSE IF /\ Content(manifest_encodings[k], file).ok
            /\ WellFormed(Content(manifest_encodings[k], file))
         THEN k
    ELSE FirstParsing(file, k + 1)

\* parse_manifest (lines 20-114): the first encoding that decodes the file
\* into well-formed XML wins (lines 30-43); with none, the file is read as
\* UTF-8 without its undecodable bytes (lines 45-49); a failure of that
\* parse is raised again (lines 112-114).
parse_manifest(file) ==
    LET k == FirstParsing(file, 1)
        ignored == [ok |-> TRUE,
                    before |-> IF file.bom THEN <<65279>> ELSE <<>>,
                    title |-> utf_8_decode_ignore(file.body)]
    IN  IF k > 0
        THEN Metadata(manifest_encodings[k], Content(manifest_encodings[k], file))
        ELSE IF WellFormed(ignored)
             THEN Metadata("utf-8 (ignore errors)", ignored)
        ELSE [raised |-> TRUE, encoding_used |-> "none", title |-> <<>>]

\* ------------------------------------------- parser methods on their own
\* The variables of the import call, which a parser method called on its
\* own neither reads nor writes.
import_vars == <<filename, temp_dir, upload, extract_dir, metadata, i,
                 lesson_id, images_info, lessons_created, failed_conversions,
                 lessons, attachments, session, background_tasks, response,
                 exc, io_faults>>

NoImport ==
    /\ filename = NoFilename
    /\ temp_dir = FALSE
    /\ upload = "none"
    /\ extract_dir = FALSE
    /\ metadata = NoMetadata
    /\ i = 0
    /\ lesson_id = 0
    /\ images_info = <<>>
    /\ lessons_created = <<>>
    /\ failed_conversions = <<>>
    /\ lessons = <<>>
    /\ attachments = <<>>
    /\ session = {}
    /\ background_tasks = <<>>
    /\ response = NoResponse
    /\ exc = NoExc
    /\ io_faults = {}

\* Longest HTML document of the rehoming model, in pieces.
MaxRefs == 2

\* The references of the model that stand in background declarations.
BgReferences ==
    { r \in References :
        /\ r.scheme \in {"", "http://"}
        /\ r.slashes < 2
        /\ r.segs \in {<<"p.png">>, <<"my%20pic.png">>, <<"q.JPG">>,
                       <<"..", "q.JPG">>, <<"missing.png">>, <<"LONG">>,
                       <<"etc", "hostname">>, <<"cdn", "x.png">>} }

\* The <img> tags of the model with a second attribute whose name ends in
\* src: <img src="p.png" data-src="/q.JPG"> and
\* <img data-src="/q.JPG" src="missing.png">.
LazyImages ==
    { Img(<<Attr("src", Ref("", 0, <<"p.png">>)),
            Attr("data-src", Ref("", 1, <<"q.JPG">>))>>),
      Img(<<Attr("data-src", Ref("", 1, <<"q.JPG">>)),
            Attr("src", Ref("", 0, <<"missing.png">>))>>) }

\* The pieces a document of the model is made of.
Items ==
    {Text} \cup { Img(<<Attr("src", r)>>) : r \in References }
           \cup LazyImages
           \cup { Bg(r) : r \in BgReferences }

\* extract_and_process_images called for /srv/pkg/lesson/a.html, the
\* lesson 3 of course 7, on every document of the model.
RehomeInit ==
    /\ pc = "rehome"
    /\ arg \in { [course_id |-> 7, lesson_id |-> 3, html_content |-> d]
                   : d \in SeqUpTo(Items, MaxRefs) }
    /\ result = NoCall
    /\ NoImport

\* images_dir.mkdir(parents=True, exist_ok=True) raising (line 346).
RehomeMkdirFail ==
    /\ pc = "rehome"
    /\ result' = [raised |-> TRUE, cause |-> "mkdir", html |-> <<>>,
                  images |-> <<>>, images_dir |-> {}, copies |-> {}]
    /\ pc' = "returned"
    /\ UNCHANGED <<arg, import_vars>>

\* The piece holds a reference that shutil.copy2 is called for.
Copies(item) ==
    /\ item.kind # "text"
    /\ PatternMatches(item.kind, item)
    /\ ~Skipped(Captured(item))
    /\ FirstFile(possible_paths(Captured(item)), FALSE).path # NoPath

\* The piece holds a reference with a candidate path of an over-long name.
Stats(item) ==
    /\ item.kind # "text"
    /\ PatternMatches(item.kind, item)
    /\ \E k \in 1..4 : TooLong(possible_paths(Captured(item))[k])

\* The two passes and the return (lines 429-498), for every outcome of the
\* copies and either behaviour of Path.exists(); the outcome of a copy
\* that is never tried and the behaviour of a stat() that never fails are
\* held at one value.
RehomeReturn ==
    /\ pc = "rehome"
    /\ \E copy \in [1..Len(arg.html_content) -> CopyOutcomes],
          strict \in BOOLEAN :
         /\ \A k \in 1..Len(arg.html_content) :
                ~Copies(arg.html_content[k]) => copy[k] = "ok"
         /\ strict => \E k \in 1..Len(arg.html_content) :
                          Stats(arg.html_content[k])
         /\ result' = extract_and_process_images(
                          arg, [copy |-> copy, strict |-> strict])
    /\ pc' = "returned"
    /\ UNCHANGED <<arg, import_vars>>

RehomeNext ==
    \/ RehomeMkdirFail
    \/ RehomeReturn

RehomeSpec == RehomeInit /\ [][RehomeNext]_vars

\* Longest HTML text of the converter model, in pieces.
MaxChunks == 2

\* The example text <h1>Title</h1><p>Body <b>bold</b></p>.
ExampleHtml ==
    <<"<h1>", "T", "i", "t", "l", "e", "</h1>", "<p>", "B", "o", "d", "y",
      " ", "<b>", "b", "o", "l", "d", "</b>", "</p>">>

\* The pieces the texts of the model are made of: headings, bold spans and
\* a paragraph around a word, a word, a space, and numeric entities, well
\* formed and not.
MarkupChunks ==
    { <<"<h1>", "T", "</h1>">>, <<"<h2 id='s'>", "T", "</h2>">>,
      <<"<H3>", "T", "</H3>">>, <<"<h6>", "T", "</h6>">>,
      <<"<b>", "b", "</b>">>, <<"<strong>", "s", "</strong>">>,
      <<"<p>", "w", "</p>">>, <<"w">> }

EntityChunks ==
    { <<"&", "#", "1", "6", "9", ";">>,
      <<"&", "#", "x", "A", "9", ";">>,
      <<"&", "#", "9", ";">>,
      <<"&", "#", "1", "6", "0", ";">>,
      <<"&", "#", "3", "8", ";">>,
      <<"#", "x", "4", "1", ";">>,
      <<"&", "#", "x", "Z", "Z", ";">>,
      <<"&", "#", "1", "1", "1", "4", "1", "1", "2", ";">>,
      <<"&", "#", "x", "1", "1", "0", "0", "0", "0", ";">>,
      <<"&", "#", ";">> }

\* Texts with line breaks: a<br>b and <br/>.
BreakChunks == { <<"a", "<br>", "b">>, <<"<br/>">> }

\* Texts that carry escaped markup: &lt;script&gt; and &#60;script&#62;.
EscapedChunks ==
    { <<"&", "l", "t", ";", "s", "c", "r", "i", "p", "t", "&", "g", "t", ";">>,
      <<"&", "#", "6", "0", ";", "s", "c", "r", "i", "p", "t",
        "&", "#", "6", "2", ";">> }

\* The pieces a text of the model is made of.
Chunks ==
    MarkupChunks \cup EntityChunks \cup BreakChunks \cup EscapedChunks
        \cup {<<" ">>}

\* The text a sequence of pieces spells.
RECURSIVE Flatten(_)
Flatten(chunks) ==
    IF chunks = <<>> THEN <<>> ELSE Head(chunks) \o Flatten(Tail(chunks))

\* _html_to_markdown called on every text of the model; arg is the text in
\* pieces and result is html_content, which the steps rewrite one after
\* the other.
MarkdownInit ==
    /\ pc = MarkdownSteps[1]
    /\ arg \in SeqUpTo(Chunks, MaxChunks) \cup {<<ExampleHtml>>}
    /\ result = Flatten(arg)
    /\ NoImport

\* One step of the converter; after the last one the method returns.
MarkdownStep ==
    /\ \E k \in 1..Len(MarkdownSteps) :
         /\ pc = MarkdownSteps[k]
         /\ result' = MarkdownStepOf(MarkdownSteps[k], result)
         /\ pc' = IF k = Len(MarkdownSteps) THEN "returned"
                  ELSE MarkdownSteps[k + 1]
    /\ UNCHANGED <<arg, import_vars>>

MarkdownSpec == MarkdownInit /\ [][MarkdownStep]_vars

\* Longest file of the detector model, in runs.
MaxRuns == 3

\* The runs of the model: one byte of each value, and "A" 998 and 999
\* times, which puts what follows at the end of the 1000 bytes tested.
Runs == { Run(b, 1) : b \in ByteValues } \cup {Run(65, 998), Run(65, 999)}

\* detect_file_encoding called on every file of the model, readable or not.
EncodingInit ==
    /\ pc = "detect"
    /\ arg \in { [readable |-> r, runs |-> s]
                   : r \in BOOLEAN, s \in SeqUpTo(Runs, MaxRuns) }
    /\ result = NoCall
    /\ NoImport

DetectFileEncoding ==
    /\ pc = "detect"
    /\ result' = detect_file_encoding(arg)
    /\ pc' = "returned"
    /\ UNCHANGED <<arg, import_vars>>

EncodingSpec == EncodingInit /\ [][DetectFileEncoding]_vars

\* Longest title of the manifest model, in bytes.
MaxBytes == 3

\* parse_manifest called on every manifest of the model: the title as its
\* author wrote it in arg.encoding, with or without a byte-order mark.
ManifestInit ==
    /\ pc = "parse"
    /\ arg \in { [encoding |-> manifest_encodings[k], bom |-> b, body |-> s]
                   : k \in 1..Len(manifest_encodings), b \in BOOLEAN,
                     s \in SeqUpTo(ByteValues, MaxBytes) }
    /\ result = NoCall
    /\ NoImport

ParseManifest ==
    /\ pc = "parse"
    /\ result' = parse_manifest([bom |-> arg.bom, body |-> arg.body])
    /\ pc' = "returned"
    /\ UNCHANGED <<arg, import_vars>>

ManifestSpec == ManifestInit /\ [][ParseManifest]_vars

\* ------------------------------------------------------ concurrent imports
\* Two calls of import_scorm_package that run side by side against one
\* disk and one database.  arg holds what they are called with and the
\* lessons the courses have, result holds the calls, the directories on
\* disk and the lesson rows.
Calls == 1..2

CourseIds == {7, 8}

\* os.urandom(4).hex(): two of the 2^32 values.
Suffixes == {"00000000", "00000001"}

\* Most HTML files of a package of this model.
MaxLessons == 2

NoDir == [course_id |-> 0, suffix |-> "none"]

\* f"course_{course_id}_{os.urandom(4).hex()}" under upload_dir (line 66).
ExtractDir(course_id, suffix) == [course_id |-> course_id, suffix |-> suffix]

\* tempfile.mkdtemp: a directory that did not exist (line 52).
Mkdtemp(dirs) == CHOOSE t \in 1..(Cardinality(dirs) + 1) : t \notin dirs

\* The next value of the autoincrement key of the lessons table.
NextLessonId(rows) == Len(rows) + 1

\* shutil.rmtree(path) of an extraction directory: whatever lies under
\* that name goes.
Rmtree(extracted, dir) == { e \in extracted : e.dir # dir }

ImportsInit ==
    /\ pc = "imports"
    /\ arg \in { [course_id |-> c, html_files |-> n, lessons |-> e]
                   : c \in [Calls -> CourseIds],
                     n \in [Calls -> 0..MaxLessons],
                     e \in {<<>>, <<[id |-> 1, course_id |-> 7, order |-> 0]>>} }
    /\ result = [call |-> [c \in Calls |->
                              [pc |-> "mkdtemp", temp_dir |-> 0,
                               extract_dir |-> NoDir, i |-> 0]],
                 temp_dirs  |-> {},
                 extracted  |-> {},
                 lessons    |-> arg.lessons,
                 image_dirs |-> {}]
    /\ NoImport

\* One step of call c: its fields and the shared fields that change.
CallStep(c, fields, shared) ==
    /\ pc = "imports"
    /\ result' = [shared EXCEPT !.call[c] = fields]
    /\ UNCHANGED <<pc, arg, import_vars>>

\* temp_dir = tempfile.mkdtemp(prefix="scorm_import_") and the upload
\* written into it (lines 52-61).
CallMkdtemp(c) ==
    LET me == result.call[c]
        t  == Mkdtemp(result.temp_dirs)
    IN  /\ me.pc = "mkdtemp"
        /\ CallStep(c, [me EXCEPT !.pc = "name", !.temp_dir = t],
                    [result EXCEPT !.temp_dirs = @ \cup {t}])

\* extract_dir = upload_dir / f"course_{course_id}_{os.urandom(4).hex()}"
CallName(c) ==
    LET me == result.call[c]
    IN  /\ me.pc = "name"
        /\ \E s \in Suffixes :
             CallStep(c, [me EXCEPT !.pc = "extract",
                             !.extract_dir = ExtractDir(arg.course_id[c], s)],
                      result)

\* extract_scorm_package: a directory of that name is removed, the
\* directory is made and the archive extracted into it (lines 118-131).
CallExtract(c) ==
    LET me == result.call[c]
    IN  /\ me.pc = "extract"
        /\ CallStep(c, [me EXCEPT !.pc = "loop"],
                    [result EXCEPT !.extracted =
                        Rmtree(@, me.extract_dir)
                            \cup {[dir |-> me.extract_dir, files_of |-> c]}])

\* extract_scorm_package failing after the directory was made: the except
\* clause removes the directory (lines 234-243).
CallExtractFail(c) ==
    LET me == result.call[c]
    IN  /\ me.pc = "extract"
        /\ CallStep(c, [me EXCEPT !.pc = "except"],
                    [result EXCEPT !.extracted = Rmtree(@, me.extract_dir)])

\* One turn of the file loop: create_lesson with order=i (lines 79-96) and
\* the image directory of the new lesson (scorm_parser.py lines 345-346).
CallCreateLesson(c) ==
    LET me  == result.call[c]
        lid == NextLessonId(result.lessons)
    IN  /\ me.pc = "loop"
        /\ me.i < arg.html_files[c]
        /\ CallStep(c, [me EXCEPT !.i = @ + 1],
                    [result EXCEPT
                        !.lessons = Append(@, [id |-> lid,
                                               course_id |-> arg.course_id[c],
                                               order |-> me.i]),
                        !.image_dirs = @ \cup
                            {[course_id |-> arg.course_id[c],
                              lesson_id |-> lid, made_by |-> c]}])

\* After the loop: shutil.rmtree(temp_dir) and the cleanup task added
\* (lines 179-184).
CallFinish(c) ==
    LET me == result.call[c]
    IN  /\ me.pc = "loop"
        /\ me.i = arg.html_files[c]
        /\ CallStep(c, [me EXCEPT !.pc = "responded"],
                    [result EXCEPT !.temp_dirs = @ \ {me.temp_dir}])

\* The top-level except clause: shutil.rmtree(temp_dir) (lines 211-224).
CallExcept(c) ==
    LET me == result.call[c]
    IN  /\ me.pc = "except"
        /\ CallStep(c, [me EXCEPT !.pc = "done"],
                    [result EXCEPT !.temp_dirs = @ \ {me.temp_dir}])

\* cleanup_extracted_files run as a background task after the response.
CallCleanup(c) ==
    LET me == result.call[c]
    IN  /\ me.pc = "responded"
        /\ CallStep(c, [me EXCEPT !.pc = "done"],
                    [result EXCEPT !.extracted = Rmtree(@, me.extract_dir)])

ImportsNext ==
    \E c \in Calls :
        \/ CallMkdtemp(c)
        \/ CallName(c)
        \/ CallExtract(c)
        \/ CallExtractFail(c)
        \/ CallCreateLesson(c)
        \/ CallFinish(c)
        \/ CallExcept(c)
        \/ CallCleanup(c)

ImportsSpec == ImportsInit /\ [][ImportsNext]_vars

\* ================================================================= claims
NumFiles == Len(metadata.html_files)
InFileStep == pc \in {"convert", "attach", "commit"} \/ (pc = "loop" /\ i < NumFiles)

\* ---------------------------------------------------------------------- C1
C1_Step ==
    /\ InFileStep =>
          \/ /\ pc' \in {"convert", "attach", "commit"}
             /\ UNCHANGED <<i, failed_conversions, lessons_created, exc>>
          \/ /\ pc' = "loop" /\ i' = i + 1
             /\ Len(lessons_created') = Len(lessons_created) + 1
             /\ UNCHANGED <<failed_conversions, exc>>
          \/ /\ pc' = "loop" /\ i' = i + 1
             /\ Len(failed_conversions') = Len(failed_conversions) + 1
             /\ SubSeq(failed_conversions', 1, Len(failed_conversions))
                    = failed_conversions
             /\ failed_conversions'[Len(failed_conversions')].file
                    = metadata.html_files[i + 1]
             /\ failed_conversions'[Len(failed_conversions')].error
                    \in {"create_lesson", "convert", "attachment", "commit"}
             /\ UNCHANGED <<lessons_created, exc>>
    /\ (pc = "loop" /\ i = NumFiles) =>
          \/ pc' = "add_task" /\ exc' = exc
          \/ pc' = "except" /\ exc' = [type |-> "rmtree", cause |-> "temp_dir"]
    /\ pc = "respond" =>
          /\ response'.kind = "summary"
          /\ response'.failed_conversions.items = failed_conversions

\* C1: an exception at any step of one HTML file (lesson creation,
\* conversion with rehoming, attachment creation, commit) is caught and
\* appended to failed_conversions as {file, error} for that file, the loop
\* goes on with the next file, and the exception never reaches the
\* top-level handler: after the last file the call goes on to its summary,
\* which carries the recorded failures.
Thm_C1 == [][C1_Step]_vars

\* A summary was returned although the first file failed, and the second
\* file was processed into a lesson after it.
Wit_C1 ==
    /\ pc = "done" /\ response.kind = "summary"
    /\ NumFiles = 2
    /\ Len(failed_conversions) = 1
    /\ failed_conversions[1].file = metadata.html_files[1]
    /\ Len(lessons_created) = 1
    /\ lessons_created[1].file = metadata.html_files[2]

\* ---------------------------------------------------------------------- C2
\* C2: after any import call that got past the filename and extension
\* checks, on every exit path, the temporary upload file no longer exists
\* on disk.  Stated for the runs in which no removal of temp_dir failed.
Cex_C2 ==
    (pc = "done" /\ response.status # 400 /\ "temp_dir" \notin io_faults)
        => upload = "none"

\* ---------------------------------------------------------------------- C3
CountIn(list, p) == Cardinality({k \in 1..Len(list) : list[k] = p})
CountFile(list, p) == Cardinality({k \in 1..Len(list) : list[k].file = p})

\* C3: in every returned summary lessons_created + failed_conversions =
\* total_files_found, and the two lists together hold each entry of
\* html_files exactly once (as often as html_files holds it).
Thm_C3 ==
    response.kind = "summary" =>
        /\ response.summary.lessons_created + response.summary.failed_conversions
               = response.summary.total_files_found
        /\ response.summary.total_files_found = NumFiles
        /\ response.summary.lessons_created = Len(response.lessons_created)
        /\ response.summary.failed_conversions
               = Len(response.failed_conversions.items)
        /\ \A k \in 1..NumFiles :
               CountIn(metadata.html_files, metadata.html_files[k])
                   = CountFile(response.lessons_created, metadata.html_files[k])
                     + CountFile(response.failed_conversions.items,
                                 metadata.html_files[k])

\* A summary over two files, one in each partition.
Wit_C3 ==
    /\ response.kind = "summary"
    /\ NumFiles = 2
    /\ Len(response.lessons_created) = 1
    /\ Len(response.failed_conversions.items) = 1

\* ---------------------------------------------------------------------- C4
\* C4: in the returned summary the warning is present iff at least one file
\* failed, failed_conversions is null iff no file failed, and a package of
\* one HTML file whose conversion throws is answered with status 200,
\* lessons_created = 0, failed_conversions = 1 and a warning.
Thm_C4 ==
    response.kind = "summary" =>
        /\ response.warning <=> (failed_conversions # <<>>)
        /\ response.failed_conversions.null <=> (failed_conversions = <<>>)
        /\ (NumFiles = 1 /\ failed_conversions # <<>>) =>
              /\ response.status = 200
              /\ response.summary.lessons_created = 0
              /\ response.summary.failed_conversions = 1
              /\ response.warning

\* The summary of a one-file package whose conversion threw.
Wit_C4 ==
    /\ response.kind = "summary"
    /\ NumFiles = 1
    /\ Len(failed_conversions) = 1
    /\ failed_conversions[1].error = "convert"

\* ---------------------------------------------------------------------- C5
\* The declared HTML files of a package that exist, as path strings, in
\* document order.
DeclaredHtml(pkg) ==
    SelectSeq([k \in 1..Len(pkg.hrefs) |-> PathJoin(pkg.hrefs[k])],
              LAMBDA p : /\ \/ p = [via |-> "../", name |-> "host.html"]
                            \/ /\ p.via # "../"
                               /\ p.name \in pkg.tree
                               /\ (p.via = "x/../" => "x" \in pkg.tree)
                         /\ p.name \in {"a.html", "b.htm", "gone.html",
                                        "host.html"})

\* Position of a name in the traversal, .html files before .htm files.
ScanRank(n) == IF n = "a.html" THEN 1 ELSE 2

\* html_files of every package: the declared files in document order, then
\* the scanned files that were not declared under the same string, in scan
\* order.
HtmlOrder ==
    \A pkg \in ImportPackages :
        ExtractionError(pkg) = "none" =>
            LET list == html_files_of(pkg)
                d    == Len(DeclaredHtml(pkg))
            IN  /\ Len(list) >= d
                /\ SubSeq(list, 1, d) = DeclaredHtml(pkg)
                /\ \A k \in (d + 1)..Len(list) :
                       /\ list[k].via = ""
                       /\ list[k].name \in pkg.tree \cap HtmlNames
                       /\ \A j \in 1..d : list[j] # list[k]
                /\ \A j, k \in (d + 1)..Len(list) :
                       j < k => ScanRank(list[j].name) < ScanRank(list[k].name)
                /\ \A n \in pkg.tree \cap HtmlNames :
                       \E k \in 1..Len(list) : list[k] = [via |-> "", name |-> n]

\* C5: html_files holds the declared files first and the scanned files
\* after them; the files are processed one at a time in that order: while
\* file i is in work exactly the files before it have ended (in
\* lessons_created or in failed_conversions) and no lesson row of a later
\* file exists; the row of the file at position i has order i and, when the
\* package has more than one HTML file, a title prefixed with i + 1.
Thm_C5 ==
    /\ HtmlOrder
    /\ metadata.ok =>
          /\ i <= NumFiles
          /\ Len(lessons_created) + Len(failed_conversions) = i
          /\ \A k \in 1..Len(lessons) :
                /\ lessons[k].order < i
                   \/ (lessons[k].order = i /\ pc \in {"convert", "attach", "commit"})
                /\ lessons[k].file = metadata.html_files[lessons[k].order + 1]
                /\ lessons[k].title.stem = Stem(lessons[k].file.name)
                /\ lessons[k].title.ordinal =
                       IF NumFiles > 1 THEN lessons[k].order + 1 ELSE 0
          /\ \A j, k \in 1..Len(lessons) :
                j < k => lessons[j].order < lessons[k].order
          /\ \A k \in 1..Len(lessons_created) :
                \E r \in 1..Len(lessons) :
                    /\ lessons[r].id = lessons_created[k].id
                    /\ lessons[r].title = lessons_created[k].title
                    /\ lessons[r].file = lessons_created[k].file

\* Both files of a two-file package became lessons: the declared b.htm
\* first, the scanned a.html (which a scan alone lists first) second.
Wit_C5 ==
    /\ pc = "done"
    /\ NumFiles = 2
    /\ Len(lessons) = 2
    /\ lessons[1].title.ordinal = 1 /\ lessons[1].order = 0
    /\ lessons[2].title.ordinal = 2 /\ lessons[2].order = 1
    /\ metadata.html_files[1].name = "b.htm"
    /\ metadata.html_files[2].name = "a.html"

\* ---------------------------------------------------------------------- C6
\* The file of the tree a path string denotes (its canonical form).
Canonical(p) == p.name

NoDuplicate(list) ==
    \A j, k \in 1..Len(list) : j # k => Canonical(list[j]) # Canonical(list[k])

\* C6: after extract_scorm_package returns, none of html_files, image_files
\* and other_files contains the same file twice.
Cex_C6 ==
    metadata.ok =>
        /\ NoDuplicate(metadata.html_files)
        /\ NoDuplicate(metadata.image_files)
        /\ NoDuplicate(metadata.other_files)

\* ---------------------------------------------------------------------- C7
\* The call made the extraction directory: extraction succeeded, or it
\* failed inside its try block.
CreatedExtractDir == metadata.ok \/ exc.type = "extraction"

\* C7: once an import call that created an extraction directory is over
\* and no cleanup task is pending, that directory no longer exists.
\* Stated for the runs in which no removal of the directory failed.
Cex_C7 ==
    (pc = "done" /\ background_tasks = <<>> /\ CreatedExtractDir
        /\ "extract_dir" \notin io_faults)
        => ~extract_dir

\* ---------------------------------------------------------------------- C8
C8_Step ==
    /\ pc = "respond" =>
          /\ response'.kind = "summary"
          /\ extract_dir'
          /\ background_tasks' = <<"cleanup_extracted_files">>
          /\ pc' = "done"
    /\ (metadata.ok /\ extract_dir /\ ~extract_dir') =>
          /\ pc = "done"
          /\ response.kind = "summary"
          /\ background_tasks # <<>>
          /\ background_tasks' = Tail(background_tasks)
    /\ Len(background_tasks') > Len(background_tasks) =>
          /\ i = NumFiles
          /\ Len(lessons_created) + Len(failed_conversions) = NumFiles
          /\ ~temp_dir
          /\ extract_dir

\* C8: on the success path the extraction directory is there when the
\* summary is returned, with the cleanup task still pending; the directory
\* is removed only by that task, after the call is over; and the task is
\* added only after the loop has finished and temp_dir was removed.
Thm_C8 == [][C8_Step]_vars

\* The summary was returned, the directory is still there and its cleanup
\* is pending.
Wit_C8 ==
    /\ pc = "done"
    /\ response.kind = "summary"
    /\ extract_dir
    /\ background_tasks = <<"cleanup_extracted_files">>
    /\ NumFiles > 0

\* ---------------------------------------------------------------------- C9
ExtractionCauses ==
    {"unzip", "manifest_not_found", "manifest_parse", "classification"}

\* extract_scorm_package fails after it made the directory.
FailsInTry == pc = "extract" /\ pc' = "except" /\ exc'.cause # "stale_extract_dir"

\* C9, as claimed: when the wrapped extraction error is raised, the
\* destination directory no longer exists.
Cex_C9 == exc.type = "extraction" => ~extract_dir

C9_Step ==
    FailsInTry =>
        /\ exc'.type = "extraction"
        /\ exc'.cause \in ExtractionCauses
        /\ extract_dir' => "extract_dir" \in io_faults'

\* C9, amended: when extract_scorm_package fails after making the
\* directory, the error raised is the wrapped extraction error with its
\* cause, also when the removal fails; and the directory no longer exists
\* unless that removal failed.
Thm_C9 == [][C9_Step]_vars

\* The wrapped error of a package without manifest is in flight although
\* the removal of the directory failed.
Wit_C9 ==
    /\ pc = "except"
    /\ exc = [type |-> "extraction", cause |-> "manifest_not_found"]
    /\ extract_dir
    /\ "extract_dir" \in io_faults

\* --------------------------------------------------------------------- C10
C10_State ==
    /\ response.kind = "error" =>
          \/ /\ response.status = 400
             /\ exc = [type |-> "http400", cause |-> "filename_required"]
             /\ filename = NoFilename
          \/ /\ response.status = 400
             /\ exc = [type |-> "http400", cause |-> "bad_extension"]
             /\ filename.suffix \notin {".zip", ".scorm", ".pif", ".ZIP", ".SCORM"}
          \/ /\ response.status = 500
             /\ exc.type = "extraction" \/ exc.cause = "stale_extract_dir"
             /\ ~metadata.ok
          \/ /\ response.status = 500
             /\ exc.cause \in {"temp_io", "temp_dir"}
    /\ (pc = "done" /\ metadata.ok /\ "temp_dir" \notin io_faults) =>
          response.kind = "summary"
    /\ response.status = 400 =>
          /\ ~temp_dir /\ upload = "none"
          /\ metadata = NoMetadata
          /\ lessons = <<>> /\ attachments = <<>>
          /\ io_faults = {}

C10_Step ==
    /\ (pc = "validate" /\ pc' = "done") =>
          /\ response'.status = 400
          /\ UNCHANGED <<disk, db, metadata>>
    /\ (pc = "validate" /\ filename # NoFilename
           /\ filename.suffix \in {".zip", ".scorm", ".pif", ".ZIP", ".SCORM"})
          => pc' = "mkdtemp"
    /\ InFileStep => pc' # "except" /\ response' = response

\* C10: an error response has one of four reasons: no filename, an
\* extension outside .zip/.scorm/.pif, a failure of extract_scorm_package,
\* or an I/O failure on the temporary storage (mkdtemp, the write, the
\* removal of temp_dir); no per-file step makes the call fail; and a
\* rejected filename or extension leaves disk and database untouched.
Thm_C10 == []C10_State /\ [][C10_Step]_vars

\* A call whose every file failed, each at another step, returned a summary.
Wit_C10 ==
    /\ pc = "done"
    /\ response.kind = "summary"
    /\ NumFiles = 2
    /\ Len(failed_conversions) = 2
    /\ failed_conversions[1].error = "create_lesson"
    /\ failed_conversions[2].error = "commit"

\* --------------------------------------------------------------------- C11
\* The search of extract_scorm_package has returned or raised.
SearchDone == arg.archive_ok /\ exc.cause # "stale_extract_dir" /\ pc # "extract"

\* Position of an .xml path in the traversal.
XmlRank(p) == CHOOSE k \in 1..Len(XmlOrder) : XmlOrder[k] = p

\* The files of the archive named exactly imsmanifest.xml below the root,
\* and those whose name contains "manifest" and ends in ".xml".
NestedExact == { p \in arg.xmls : p \in {"x/imsmanifest.xml", "y/imsmanifest.xml"} }
AnyManifest == { p \in arg.xmls : p # "y/data.xml" }

\* C11: the manifest is the root imsmanifest.xml when it exists, else the
\* first nested file named imsmanifest.xml in traversal order, else the
\* first file matching *manifest*.xml; a lower-priority file is used only
\* when no higher-priority one exists, and manifest-not-found is raised
\* exactly when the archive holds none of the three.
Thm_C11 ==
    SearchDone =>
        /\ (exc.cause = "manifest_not_found") <=> (AnyManifest = {})
        /\ metadata.ok =>
             /\ "imsmanifest.xml" \in arg.xmls
                    => metadata.manifest = "imsmanifest.xml"
             /\ ("imsmanifest.xml" \notin arg.xmls /\ NestedExact # {})
                    => /\ metadata.manifest \in NestedExact
                       /\ \A p \in NestedExact :
                              XmlRank(metadata.manifest) <= XmlRank(p)
             /\ ("imsmanifest.xml" \notin arg.xmls /\ NestedExact = {})
                    => /\ metadata.manifest \in AnyManifest
                       /\ \A p \in AnyManifest :
                              XmlRank(metadata.manifest) <= XmlRank(p)

\* A nested imsmanifest.xml was chosen although a *manifest*.xml file comes
\* earlier in the traversal and a second nested one comes later.
Wit_C11 ==
    /\ SearchDone
    /\ metadata.ok
    /\ metadata.manifest = "x/imsmanifest.xml"
    /\ {"x/course_manifest.xml", "y/imsmanifest.xml"} \subseteq arg.xmls

\* --------------------------------------------------------------------- C19
\* Ids of the lesson rows in the database, and of the lessons the call
\* lists as created.
PersistedIds == { lessons[k].id : k \in 1..Len(lessons) }
CreatedIds   == { lessons_created[k].id : k \in 1..Len(lessons_created) }

\* C19: when the call has returned its summary, the lesson rows in the
\* database are exactly the lessons listed in lessons_created, none of them
\* holds the placeholder content, and every attachment row belongs to a
\* listed lesson.
Cex_C19 ==
    (pc = "done" /\ response.kind = "summary") =>
        /\ PersistedIds = CreatedIds
        /\ \A k \in 1..Len(lessons) : lessons[k].content # "placeholder"
        /\ \A k \in 1..Len(attachments) :
               attachments[k].lesson_id \in CreatedIds

\* --------------------------------------------------------------------- C20
\* The attachment rows of one lesson, in the order they were made.
RowsOf(rows, lid) == SelectSeq(rows, LAMBDA a : a.lesson_id = lid)

\* The MIME type the fixed map gives the suffix of a generated file.
ExpectedMime(ext) ==
    LET map == { <<".jpg", "image/jpeg">>, <<".jpeg", "image/jpeg">>,
                 <<".png", "image/png">>, <<".gif", "image/gif">>,
                 <<".bmp", "image/bmp">>, <<".svg", "image/svg+xml">>,
                 <<".webp", "image/webp">> }
    IN  IF \E e \in map : e[1] = ext
        THEN (CHOOSE e \in map : e[1] = ext)[2]
        ELSE "application/octet-stream"

C20_Step ==
    /\ lessons_created' # lessons_created =>
         LET entry == lessons_created'[Len(lessons_created')]
             rows  == RowsOf(attachments', entry.id)
         IN  /\ entry.id = lesson_id
             /\ entry.images_count = Len(images_info)
             /\ Len(rows) = Len(images_info)
             /\ \A k \in 1..Len(rows) :
                    /\ rows[k].file_name = images_info[k].filename
                    /\ rows[k].mime_type = ExpectedMime(rows[k].file_name.ext)
    /\ \A k \in 1..Len(lessons_created) :
           Len(RowsOf(attachments', lessons_created[k].id))
               = lessons_created[k].images_count
    /\ response'.kind = "summary" =>
           response'.summary.images_processed = SumImages(lessons_created')

Doc == arg.html_content
HoldsRef(k) == Doc[k].kind \in {"img", "bg"}

\* No candidate path of the reference is an existing regular file.
Unresolved(ref) ==
    \A k \in 1..4 : Walk(<<>>, possible_paths(ref)[k]) \notin HostFiles

\* The copy of the reference of piece k was tried and failed.
CopyFailed(k) ==
    \E c \in result.copies : c.at = k /\ c.outcome # "ok"

\* Piece k holds a reference of one of the three kinds the claim names.
NotRehomed(k) ==
    /\ HoldsRef(k)
    /\ \/ Skipped(Captured(Doc[k]))
       \/ Unresolved(Captured(Doc[k]))
       \/ CopyFailed(k)

\* C12: a reference that is skipped (data:, http://, https://, //), that
\* resolves to no existing regular file, or whose copy fails does not make
\* the call raise and is byte-identical in the returned HTML; a document
\* with such references only yields no record and no file in the images
\* directory.
Cex_C12 ==
    (pc = "returned" /\ result.cause # "mkdir") =>
        /\ ~result.raised
        /\ \A k \in 1..Len(Doc) :
               NotRehomed(k) => result.html[k] = Doc[k]
        /\ (\A k \in 1..Len(Doc) : HoldsRef(k) => NotRehomed(k))
               => (result.images = <<>> /\ result.images_dir = {})

\* The same without the two defects: a document whose references are all
\* of the three kinds and free of over-long names comes back unchanged and
\* without a record, and every file left in the images directory is the
\* remainder of a copy that failed.
C12_Rest ==
    (pc = "returned" /\ result.cause = "none") =>
        /\ \A k \in 1..Len(Doc) :
               NotRehomed(k) => result.html[k] = Doc[k]
        /\ (\A k \in 1..Len(Doc) : HoldsRef(k) => NotRehomed(k))
               => /\ result.images = <<>>
                  /\ \A f \in result.images_dir : ~f.complete

\* --------------------------------------------------------------------- C13
\* The pieces of one kind whose reference resolved and was copied, in
\* document order.
Rehomed(kind) ==
    SelectSeq([k \in 1..Len(Doc) |-> k],
              LAMBDA k : /\ Doc[k].kind = kind
                         /\ \E c \in result.copies :
                                c.at = k /\ c.outcome = "ok")

RehomedAll == Rehomed("img") \o Rehomed("bg")

\* What the returned HTML reads where piece k had its reference.
Carried(k) ==
    IF result.html[k].kind = "img"
    THEN result.html[k].attrs[LastSrc(Doc[k].attrs)].url
    ELSE result.html[k].url

\* Record j is the record of the j-th rehomed piece: its original reference,
\* the public path under /uploads/courses/{course}/lessons/{lesson}/images/
\* that the HTML now carries, and its kind.
RecordOf(j) ==
    LET k == RehomedAll[j]
        r == result.images[j]
    IN  /\ r.original_src = Captured(Doc[k])
        /\ r.type = (IF Doc[k].kind = "bg" THEN "background" ELSE "inline")
        /\ r.new_url = new_url(arg.course_id, arg.lesson_id, r.filename)
        /\ r.new_path = r.filename
        /\ Carried(k) = r.new_url

\* The file of record j lies in the images directory with the bytes of the
\* original file.
CopyOf(j) ==
    \E f \in result.images_dir :
        /\ f.name = result.images[j].new_path
        /\ f.complete
        /\ f.bytes = Walk(<<>>, result.images[j].original_path)

\* A later copy to the name of record j failed with the file on disk.
Clobbered(j) ==
    \E c \in result.copies :
        /\ c.outcome = "partial"
        /\ new_filename(FirstFile(possible_paths(Captured(Doc[c.at])),
                                  FALSE).path,
                        Doc[c.at].kind = "bg") = result.images[j].new_path

InsideTree(path) ==
    LET real == Walk(<<>>, path)
    IN  /\ Len(real) > Len(extracted_path)
        /\ SubSeq(real, 1, Len(extracted_path)) = extracted_path

\* C14: the original path of every record denotes a file inside the
\* extracted package tree.
Cex_C14 ==
    (pc = "returned" /\ ~result.raised) =>
        \A j \in 1..Len(result.images) :
            InsideTree(result.images[j].original_path)

\* --------------------------------------------------------------------- C15
\* Level of the heading an opening tag starts (0: no heading).
HeadingLevel(sym) ==
    IF \E n \in 1..6 : sym \in OpenTags(HeadingTag(n))
    THEN CHOOSE n \in 1..6 : sym \in OpenTags(HeadingTag(n))
    ELSE 0

\* The Markdown of one piece of markup: a heading of level n is n hashes,
\* a space, the text and a blank line; a bold span is the text between two
\* pairs of asterisks; a paragraph is the text and a blank line before
\* what follows; a word is itself.  With trimmed, a heading that ends the
\* document has lost its blank line.
Rendered(chunk, last, trimmed) ==
    LET text  == SubSeq(chunk, 2, Len(chunk) - 1)
        n     == HeadingLevel(chunk[1])
        blank == <<"NL", "NL">>
    IN  IF Len(chunk) = 1 THEN chunk
        ELSE IF n > 0
             THEN [k \in 1..n |-> "#"] \o <<" ">> \o text
                      \o (IF last /\ trimmed THEN <<>> ELSE blank)
        ELSE IF chunk[1] \in {"<b>", "<strong>"}
             THEN <<"*", "*">> \o text \o <<"*", "*">>
        ELSE text \o (IF last THEN <<>> ELSE blank)

ExpectedMarkdown(doc, trimmed) ==
    Flatten([k \in 1..Len(doc) |-> Rendered(doc[k], k = Len(doc), trimmed)])

\* The text is made of headings, bold spans, paragraphs and words.
MarkupText == \A k \in 1..Len(arg) : arg[k] \in MarkupChunks

ExampleMarkdown ==
    <<"#", " ", "T", "i", "t", "l", "e", "NL", "NL", "B", "o", "d", "y", " ",
      "*", "*", "b", "o", "l", "d", "*", "*">>

\* C15 as claimed: in the returned text every heading <hN>text</hN> is N
\* hashes, a space, the text and a blank line, and every <b> and <strong>
\* span is **text**.
Cex_C15 ==
    (pc = "returned" /\ MarkupText) => result = ExpectedMarkdown(arg, FALSE)

\* C15: every heading <hN>text</hN> is rewritten into N hashes, a space,
\* the text and a blank line, and every <b> and <strong> span into
\* **text**; in the returned text the blank line stands between the
\* heading and what follows it and is missing after a heading that ends
\* the text; <h1>Title</h1><p>Body <b>bold</b></p> yields "# Title", a
\* blank line, "Body **bold**"; the returned text is this function of the
\* input on every call.
Thm_C15 ==
    /\ (/\ pc = "emphasis" /\ MarkupText /\ arg # <<>>
        /\ HeadingLevel(arg[Len(arg)][1]) > 0)
           => \E n \in 1..Len(result) :
                  /\ SubSeq(result, n, Len(result))
                         = Rendered(arg[Len(arg)], TRUE, FALSE)
                  /\ n = 1 \/ result[n - 1] # "#"
    /\ (pc = "returned" /\ MarkupText) => result = ExpectedMarkdown(arg, TRUE)
    /\ (pc = "returned" /\ arg = <<ExampleHtml>>) => result = ExampleMarkdown

\* The example text was converted.
Wit_C15 ==
    /\ pc = "returned"
    /\ arg = <<ExampleHtml>>
    /\ result = ExampleMarkdown

\* --------------------------------------------------------------------- C16
\* The character a well-formed numeric entity of the model names; a piece
\* that is malformed or names no code point stands for itself.
Decoded(chunk) ==
    CASE chunk = <<"&", "#", "1", "6", "9", ";">> -> <<"U+00A9">>
      [] chunk = <<"&", "#", "x", "A", "9", ";">> -> <<"U+00A9">>
      [] chunk = <<"&", "#", "9", ";">>           -> <<"TAB">>
      [] chunk = <<"&", "#", "1", "6", "0", ";">> -> <<"NBSP">>
      [] chunk = <<"&", "#", "3", "8", ";">>      -> <<"&">>
      [] OTHER                                    -> chunk

DecodedText(doc) == Flatten([k \in 1..Len(doc) |-> Decoded(doc[k])])

\* The text is made of numeric entities, entity-like pieces and words.
EntityText == \A k \in 1..Len(arg) : arg[k] \in EntityChunks \cup {<<"w">>}

\* A decimal entity for "&" stands right before the text "#x41;".
AmpersandChain ==
    \E k \in 1..(Len(arg) - 1) :
        /\ arg[k] = <<"&", "#", "3", "8", ";">>
        /\ arg[k + 1] = <<"#", "x", "4", "1", ";">>

\* An entity of the text names a white-space character.
SpaceEntity ==
    \E k \in 1..Len(arg) : Decoded(arg[k]) \in {<<"TAB">>, <<"NBSP">>}

\* C16 as claimed: in the returned text every well-formed numeric entity
\* is the character it names and every other entity-like piece is as
\* written.
Cex_C16 ==
    (pc = "returned" /\ EntityText) => result = DecodedText(arg)

\* C16: the two entity passes replace every well-formed numeric entity by
\* the character it names and leave every other entity-like piece as
\* written, unless the "&" of a decimal entity completes a hexadecimal
\* entity, which is decoded too; the returned text shows the same unless
\* an entity named a white-space character, which the steps that follow
\* normalise and trim.
Thm_C16 ==
    /\ (pc = "whitespace" /\ EntityText /\ ~AmpersandChain)
           => result = DecodedText(arg)
    /\ (pc = "returned" /\ EntityText /\ ~AmpersandChain /\ ~SpaceEntity)
           => result = DecodedText(arg)

\* A decimal entity decoded next to an out-of-range one left as written.
Wit_C16 ==
    /\ pc = "returned"
    /\ arg = << <<"&", "#", "1", "6", "9", ";">>,
                <<"&", "#", "1", "1", "1", "4", "1", "1", "2", ";">> >>
    /\ result = <<"U+00A9", "&", "#", "1", "1", "1", "4", "1", "1", "2", ";">>

\* --------------------------------------------------------------------- C17
\* The bytes the detector tests: the first 1000 of the file.
Sample == Squeeze(Take(arg.runs, 1000))

\* The file starts with the UTF-8 byte-order mark.
StartsWithBom ==
    /\ Len(arg.runs) >= 3
    /\ \A k \in 1..3 : arg.runs[k] = Run(BOM[k], 1)

\* Place in the priority list of the first encoding that decodes the
\* sample (0: there is none).
FirstDecoding ==
    LET ok == { k \in 1..Len(detect_encodings) :
                   Decode(detect_encodings[k], Sample).ok }
    IN  IF ok = {} THEN 0 ELSE CHOOSE k \in ok : \A j \in ok : k <= j

\* The sample shows a Cyrillic letter when read in an encoding.
ShowsCyrillic(encoding) ==
    \E c \in 1040..1103 :
        \E k \in 1..Len(Decode(encoding, Sample).text) :
            Decode(encoding, Sample).text[k] = c

\* C17: for a file that starts with the UTF-8 byte-order mark the detector
\* returns utf-8-sig; for any other file it returns the first encoding of
\* the priority list that decodes the sample, and Cyrillic letters in the
\* decoded sample decide the reason only.
Thm_C17 ==
    (pc = "returned" /\ arg.readable) =>
        IF StartsWithBom THEN result.encoding = "utf-8-sig"
        ELSE /\ FirstDecoding > 0
             /\ result.encoding = detect_encodings[FirstDecoding]
             /\ result.reason = IF ShowsCyrillic(result.encoding)
                                THEN "Cyrillic detected" ELSE "Success"

\* A file without the mark that UTF-8 does not decode and cp1251 decodes
\* into text without Cyrillic letters, although maccyrillic would show some.
Wit_C17 ==
    /\ pc = "returned"
    /\ arg.readable
    /\ ~StartsWithBom
    /\ result = [encoding |-> "cp1251", reason |-> "Success"]
    /\ ShowsCyrillic("maccyrillic")

\* --------------------------------------------------------------------- C18
\* The title the author wrote.
Written == Decode(arg.encoding, arg.body)

\* The manifest has correct content in its encoding.
CorrectManifest ==
    /\ Written.ok
    /\ WellFormed([before |-> <<>>, title |-> Written.text])

\* The same manifest written in UTF-8.
InUtf8 == [bom |-> FALSE, body |-> utf_8_encode(Written.text)]

\* C18: a manifest with correct content written in any encoding of the
\* list, with or without a byte-order mark, is parsed into the same title
\* as the same manifest written in UTF-8.
Cex_C18 ==
    (pc = "returned" /\ CorrectManifest) =>
        /\ result.raised = parse_manifest(InUtf8).raised
        /\ result.title = parse_manifest(InUtf8).title

\* --------------------------------------------------------------------- C21
\* The four places a reference is looked for, in the order of the claim.
Candidates(ref) ==
    LET dir  == Parent(html_file_path)
        bare == [ref EXCEPT !.slashes = 0]
    IN  << Join(dir, ref),
           Join(dir, unquote(ref)),
           extracted_path \o bare.segs,
           extracted_path \o unquote(bare).segs >>

\* The path names an existing regular file (a directory is none).
RegularFile(path) ==
    /\ ~TooLong(path)
    /\ ~IsDir(Walk(<<>>, path))
    /\ Walk(<<>>, path) \in HostFiles

\* The first candidate of a reference that is a regular file (0: none).
FirstCandidate(ref) ==
    LET ok == { n \in 1..4 : RegularFile(Candidates(ref)[n]) }
    IN  IF ok = {} THEN 0 ELSE CHOOSE n \in ok : \A m \in ok : n <= m

\* C21: the file copied for a rehomed reference is the first of the four
\* candidates (directory of the HTML file, the same URL-decoded, extraction
\* root without the leading slash, the same URL-decoded) that is an
\* existing regular file; a reference none of whose candidates is a
\* regular file, be it a directory, is not copied and stays as written.
Thm_C21 ==
    (pc = "returned" /\ ~result.raised) =>
        /\ Len(result.images) = Len(RehomedAll)
        /\ \A j \in 1..Len(result.images) :
               LET ref == Captured(Doc[RehomedAll[j]])
               IN  /\ FirstCandidate(ref) > 0
                   /\ result.images[j].original_path
                          = Candidates(ref)[FirstCandidate(ref)]
        /\ \A k \in 1..Len(Doc) :
               (/\ HoldsRef(k)
                /\ ~Skipped(Captured(Doc[k]))
                /\ FirstCandidate(Captured(Doc[k])) = 0)
                   => /\ result.html[k] = Doc[k]
                      /\ \A c \in result.copies : c.at # k

\* p.png lies both next to the HTML file and in the extraction root, and
\* /lesson names a directory of the extraction root: the first is copied
\* from next to the HTML file, the second is left alone.
Wit_C21 ==
    /\ pc = "returned"
    /\ ~result.raised
    /\ Doc = << Img(<<Attr("src", Ref("", 0, <<"p.png">>))>>),
                Img(<<Attr("src", Ref("", 1, <<"lesson">>))>>) >>
    /\ RegularFile(Candidates(Ref("", 0, <<"p.png">>))[3])
    /\ IsDir(Candidates(Ref("", 1, <<"lesson">>))[3])
    /\ Len(result.images) = 1
    /\ result.images[1].original_path = <<"srv", "pkg", "lesson", "p.png">>
    /\ result.html[2] = Doc[2]

\* --------------------------------------------------------------------- C22
\* The reference of piece k was rehomed.
RehomedAt(k) == \E c \in result.copies : c.at = k /\ c.outcome = "ok"

\* C22: in a rehomed <img> tag only the value of the src attribute
\* changes: the tag keeps its attributes, and every attribute of another
\* name, data-src among them, keeps its value; a rehomed background
\* declaration keeps its reference and carries the public path.
Cex_C22 ==
    (pc = "returned" /\ ~result.raised) =>
        \A k \in 1..Len(Doc) :
            RehomedAt(k) =>
                IF Doc[k].kind = "img"
                THEN /\ result.html[k].kind = "img"
                     /\ Len(result.html[k].attrs) = Len(Doc[k].attrs)
                     /\ \A n \in 1..Len(Doc[k].attrs) :
                            Doc[k].attrs[n].name # "src"
                                => result.html[k].attrs[n] = Doc[k].attrs[n]
                ELSE /\ result.html[k].kind = "bg"
                     /\ result.html[k].value = Doc[k].value

\* --------------------------------------------------------------------- C28
\* C28: within one lesson no two records share the new path, and two
\* records of one source file carry one generated name.
Cex_C28 ==
    (pc = "returned" /\ ~result.raised) =>
        \A n, m \in 1..Len(result.images) :
            n # m =>
                /\ result.images[n].new_path # result.images[m].new_path
                /\ Walk(<<>>, result.images[n].original_path)
                       = Walk(<<>>, result.images[m].original_path)
                   => result.images[n].filename = result.images[m].filename

\* --------------------------------------------------------------------- C23
\* The text holds a line break between two words.
BreakInText == \E k \in 1..Len(arg) : arg[k] = <<"a", "<br>", "b">>

\* C23: a <br> followed by further text is a hard break in the returned
\* text: two spaces, a newline, and the text that follows.
Cex_C23 ==
    (pc = "returned" /\ BreakInText) =>
        \E n \in 1..(Len(result) - 3) :
            SubSeq(result, n, n + 3) = <<" ", " ", "NL", "b">>

\* --------------------------------------------------------------------- C29
\* A tag stands in the text: a whole tag, or "<" with a ">" after it.
HoldsTag(s) ==
    \/ \E n \in 1..Len(s) : s[n] \in TagSymbols
    \/ \E n \in 1..Len(s) : \E m \in (n + 1)..Len(s) :
           s[n] = "<" /\ s[m] = ">"

\* C29: the returned text holds no tag.
Cex_C29 == pc = "returned" => ~HoldsTag(result)

\* --------------------------------------------------------------------- C30
\* The bytes of the whole file are valid UTF-8.
ValidUtf8 == Decode("utf-8", Squeeze(arg.runs)).ok

\* C30: for a readable file without byte-order mark whose bytes are valid
\* UTF-8 the detector returns utf-8.
Cex_C30 ==
    (pc = "returned" /\ arg.readable /\ ~StartsWithBom /\ ValidUtf8)
        => result.encoding = "utf-8"

\* --------------------------------------------------------------------- C25
\* C25: the uploaded bytes of a call whose filename passed validation are
\* written nowhere but inside the temporary directory of the call.
Cex_C25 ==
    (file_ext(filename) \in AllowedExtensions /\ upload # "none")
        => upload = "inside"

\* --------------------------------------------------------------------- C24
\* C24: every path of html_files, image_files and other_files that
\* extract_scorm_package returns denotes a file inside the extraction
\* directory, and every lesson is made from such a file.
Cex_C24 ==
    /\ metadata.ok =>
          \A list \in {metadata.html_files, metadata.image_files,
                       metadata.other_files} :
              \A k \in 1..Len(list) : list[k].via # "../"
    /\ \A k \in 1..Len(lessons) : lessons[k].file.via # "../"

\* --------------------------------------------------------------------- C26
\* Call c is between the extraction and the end of its file loop: it
\* reads the files it extracted.
UsesExtracted(c) == result.call[c].pc = "loop"

\* Call c holds its temporary directory.
HoldsTemp(c) == result.call[c].pc \in {"name", "extract", "loop", "except"}

\* Call c has named its extraction directory and not yet cleaned it up.
HoldsExtractDir(c) ==
    result.call[c].pc \in {"extract", "loop", "except", "responded"}

\* C26: two calls that run side by side hold different temporary
\* directories, different extraction directories and different image
\* directories, and the files a call extracted are there for as long as the
\* call reads them.
Cex_C26 ==
    pc = "imports" =>
        /\ \A a, b \in Calls :
               a # b =>
                   /\ (HoldsTemp(a) /\ HoldsTemp(b))
                          => result.call[a].temp_dir # result.call[b].temp_dir
                   /\ (HoldsExtractDir(a) /\ HoldsExtractDir(b))
                          => result.call[a].extract_dir
                                 # result.call[b].extract_dir
        /\ \A d, e \in result.image_dirs :
               (d.course_id = e.course_id /\ d.lesson_id = e.lesson_id)
                   => d.made_by = e.made_by
        /\ \A c \in Calls :
               UsesExtracted(c) =>
                   [dir |-> result.call[c].extract_dir, files_of |-> c]
                       \in result.extracted

\* --------------------------------------------------------------------- C27
\* C27: no two lessons of one course have the same order value.
Cex_C27 ==
    pc = "imports" =>
        \A j, k \in 1..Len(result.lessons) :
            (j # k /\ result.lessons[j].course_id = result.lessons[k].course_id)
                => result.lessons[j].order # result.lessons[k].order

====
